---------------------------- MODULE Spec2Model ----------------------------
(***************************************************************************)
(* FormBridge intake runtime: the submission state machine                 *)
(* (formbridge/state_machine.py), the validation engine                    *)
(* (formbridge/validation.py), the event emitter and the wire form of      *)
(* events (formbridge/events.py, formbridge/types.py) and the runtime      *)
(* orchestrator (formbridge/runtime.py).                                   *)
(*                                                                         *)
(* The specifications share the definitions below:                         *)
(*   SpecSM       one SubmissionStateMachine instance, built by its        *)
(*                constructor or by from_dict, driven by transition_to;    *)
(*   Spec         one IntakeRuntime holding several submissions:           *)
(*                create_submission, get_submission and transition_to on   *)
(*                the state machines the runtime holds;                    *)
(*   SpecCreate   one IntakeRuntime and every shape of create_submission   *)
(*                request (actors, initial fields, ttl);                   *)
(*   SpecAll      a behaviour of SpecSM or of SpecCreate;                  *)
(*   SpecEmitter  one EventEmitter: on, on_any, off, off_any, emit, clear  *)
(*                and listener_count;                                      *)
(*   SpecPub      one IntakeRuntime next to an emitter with a recording    *)
(*                listener;                                                *)
(*   SpecValidate validation engines validating documents and translating  *)
(*                diagnostics;                                             *)
(*   SpecWire     events serialized by to_dict and parsed by from_dict;    *)
(*   SpecAlias    one IntakeRuntime whose callers change the fields value  *)
(*                they got back;                                           *)
(*   SpecConc     two threads calling transition_to on one machine;        *)
(*   SpecLookup   one IntakeRuntime asked for submissions and resume       *)
(*                tokens it does not hold;                                 *)
(*   SpecClock    one state machine under a wall clock that moves;         *)
(*   SpecPred     one state machine asked is_terminal and                  *)
(*                can_transition_to;                                       *)
(*   SpecCopy     one state machine whose callers change the lists         *)
(*                get_events returned;                                     *)
(*   SpecDraft    one state machine built by its constructor;              *)
(*   SpecUnsub    one EventEmitter whose listeners unsubscribe during      *)
(*                emit, emit taken one listener call at a time;            *)
(*   SpecResub    one EventEmitter whose listeners register during emit,   *)
(*                with fair loop turns;                                    *)
(*   SpecConcCreate  two threads calling create_submission on one runtime. *)
(***************************************************************************)
EXTENDS Integers, Sequences, FiniteSets, TLC

(***************************************************************************)
(* Bounds of the model                                                     *)
(***************************************************************************)
\* longest event log of the standalone state machine (SpecSM)
MaxEvents == 5
\* number of submissions the runtime creates in Spec
MaxSubs == 2
\* number of submissions the runtime creates in SpecCreate
MaxCreated == 1
\* number of transition_to calls that succeed on the runtime's machines
MaxRtEvents == 1
\* number of registrations callers make on an emitter
MaxRegistrations == 3
\* number of calls the recording listener receives in a behaviour
MaxCalls == 2
\* longest event log of the machine two threads share (SpecConc)
MaxConcEvents == 2
\* longest event log of the machine under a moving clock (SpecClock)
MaxClockEvents == 2
\* latest reading of the clock (SpecClock)
MaxClock == 2
\* longest event log of the machine whose log is handed out (SpecCopy)
MaxCopyEvents == 2
\* number of submissions two threads create on one runtime (SpecConcCreate)
MaxConcCreated == 2

(***************************************************************************)
(* types.py                                                                *)
(***************************************************************************)
SubmissionState ==
    { "draft", "in_progress", "awaiting_input", "awaiting_upload",
      "submitted", "needs_review", "approved", "rejected", "finalized",
      "cancelled", "expired" }

ActorKind == { "agent", "human", "system" }

(***************************************************************************)
(* Python values                                                           *)
(***************************************************************************)
\* Optional[T]: None, or a value of T
None == << >>
Some(x) == << x >>

EmptyMap == [ x \in {} |-> x ]

\* dict assignment d[k] = v
Put(d, k, v) == [ x \in DOMAIN d \cup { k } |-> IF x = k THEN v ELSE d[x] ]

\* JSON values: the name of the Python type and the literal
Str(s) == [ t |-> "str", v |-> s ]
IntV(lit) == [ t |-> "int", v |-> lit ]

\* mutant: every supplied key counts, the empty string too
TruthyStr_NotNone(o) == o # None

\* truth value of an Optional[str] (None and "" are falsy)
TruthyStr(o) == o # None /\ o[1] # ""

\* truth value of an Optional[dict] (None and {} are falsy)
TruthyDict(o) == o # None /\ DOMAIN o[1] # {}

(***************************************************************************)
(* types.py: Actor                                                         *)
(***************************************************************************)
\* Actor(kind, id, name=None, metadata=<default {}>)
Actor(kind, id, name, metadata) ==
    [ kind |-> kind, id |-> id, name |-> name, metadata |-> metadata ]

\* Actor.to_dict: name only when not None, metadata only when truthy
actor_to_dict(a) ==
    LET base     == [ kind |-> a.kind, id |-> a.id ]
        withName == IF a.name # None THEN Put(base, "name", a.name[1]) ELSE base
    IN  IF TruthyDict(a.metadata)
        THEN Put(withName, "metadata", a.metadata[1]) ELSE withName

\* the Actor instances callers pass to transition_to
Actors ==
    { Actor("agent", "bot_1", None, Some(EmptyMap)),
      Actor("human", "user_1", Some("Jane Doe"), Some(EmptyMap)) }

(***************************************************************************)
(* state_machine.py                                                        *)
(***************************************************************************)
\* mutant: the entries of needs_review and approved are exchanged
STATE_TO_EVENT_TYPE_ReviewSwapped ==
    [ draft        |-> "submission.created",
      submitted    |-> "submission.submitted",
      needs_review |-> "review.approved",
      approved     |-> "review.requested",
      rejected     |-> "review.rejected",
      finalized    |-> "submission.finalized",
      cancelled    |-> "submission.cancelled",
      expired      |-> "submission.expired" ]

\* STATE_TO_EVENT_TYPE: the event type of each target state that has one
STATE_TO_EVENT_TYPE ==
    [ draft        |-> "submission.created",
      submitted    |-> "submission.submitted",
      needs_review |-> "review.requested",
      approved     |-> "review.approved",
      rejected     |-> "review.rejected",
      finalized    |-> "submission.finalized",
      cancelled    |-> "submission.cancelled",
      expired      |-> "submission.expired" ]

\* mutant: the table with one edge too many (draft -> submitted)
VALID_TRANSITIONS_ExtraEdge ==
    [ draft           |-> { "in_progress", "submitted", "cancelled", "expired" },
      in_progress     |-> { "awaiting_input", "awaiting_upload", "submitted",
                            "cancelled", "expired" },
      awaiting_input  |-> { "in_progress", "cancelled", "expired" },
      awaiting_upload |-> { "in_progress", "cancelled", "expired" },
      submitted       |-> { "needs_review", "finalized", "rejected",
                            "cancelled", "expired" },
      needs_review    |-> { "approved", "rejected", "cancelled", "expired" },
      approved        |-> { "finalized", "cancelled", "expired" },
      rejected        |-> {},
      finalized       |-> {},
      cancelled       |-> {},
      expired         |-> {} ]

\* mutant: the table without cancellation of an approved submission
VALID_TRANSITIONS_NoCancelApproved ==
    [ draft           |-> { "in_progress", "cancelled", "expired" },
      in_progress     |-> { "awaiting_input", "awaiting_upload", "submitted",
                            "cancelled", "expired" },
      awaiting_input  |-> { "in_progress", "cancelled", "expired" },
      awaiting_upload |-> { "in_progress", "cancelled", "expired" },
      submitted       |-> { "needs_review", "finalized", "rejected",
                            "cancelled", "expired" },
      needs_review    |-> { "approved", "rejected", "cancelled", "expired" },
      approved        |-> { "finalized", "expired" },
      rejected        |-> {},
      finalized       |-> {},
      cancelled       |-> {},
      expired         |-> {} ]

\* mutant: the table with a way out of a terminal state (rejected -> in_progress)
VALID_TRANSITIONS_Reopen ==
    [ draft           |-> { "in_progress", "cancelled", "expired" },
      in_progress     |-> { "awaiting_input", "awaiting_upload", "submitted",
                            "cancelled", "expired" },
      awaiting_input  |-> { "in_progress", "cancelled", "expired" },
      awaiting_upload |-> { "in_progress", "cancelled", "expired" },
      submitted       |-> { "needs_review", "finalized", "rejected",
                            "cancelled", "expired" },
      needs_review    |-> { "approved", "rejected", "cancelled", "expired" },
      approved        |-> { "finalized", "cancelled", "expired" },
      rejected        |-> { "in_progress" },
      finalized       |-> {},
      cancelled       |-> {},
      expired         |-> {} ]

\* mutant: submitted may go back to in_progress
VALID_TRANSITIONS_SubmittedBack ==
    [ draft           |-> { "in_progress", "cancelled", "expired" },
      in_progress     |-> { "awaiting_input", "awaiting_upload", "submitted",
                            "cancelled", "expired" },
      awaiting_input  |-> { "in_progress", "cancelled", "expired" },
      awaiting_upload |-> { "in_progress", "cancelled", "expired" },
      submitted       |-> { "in_progress", "needs_review", "finalized",
                            "rejected", "cancelled", "expired" },
      needs_review    |-> { "approved", "rejected", "cancelled", "expired" },
      approved        |-> { "finalized", "cancelled", "expired" },
      rejected        |-> {},
      finalized       |-> {},
      cancelled       |-> {},
      expired         |-> {} ]

\* VALID_TRANSITIONS: the allowed targets of each state
VALID_TRANSITIONS ==
    [ draft           |-> { "in_progress", "cancelled", "expired" },
      in_progress     |-> { "awaiting_input", "awaiting_upload", "submitted",
                            "cancelled", "expired" },
      awaiting_input  |-> { "in_progress", "cancelled", "expired" },
      awaiting_upload |-> { "in_progress", "cancelled", "expired" },
      submitted       |-> { "needs_review", "finalized", "rejected",
                            "cancelled", "expired" },
      needs_review    |-> { "approved", "rejected", "cancelled", "expired" },
      approved        |-> { "finalized", "cancelled", "expired" },
      rejected        |-> {},
      finalized       |-> {},
      cancelled       |-> {},
      expired         |-> {} ]

\* SubmissionStateMachine(submission_id, state): a fresh instance, empty log
SubmissionStateMachine(submission_id, state) ==
    [ submission_id |-> submission_id, state |-> state, events |-> << >> ]

\* VALID_TRANSITIONS.get(self.state, set()) ; target_state in valid_targets
can_transition_to(m, target_state) ==
    LET valid_targets == IF m.state \in DOMAIN VALID_TRANSITIONS
                         THEN VALID_TRANSITIONS[m.state] ELSE {}
    IN  target_state \in valid_targets

\* mutant: only finalized counts as terminal
is_terminal_OnlyFinalized(m) == m.state = "finalized"

\* is_terminal: len(VALID_TRANSITIONS[self.state]) == 0
is_terminal(m) == Cardinality(VALID_TRANSITIONS[m.state]) = 0

\* a list object handed to a caller: its items, and whether it is the
\* machine's own self._events object
ListObject(items, is_log) == [ items |-> items, is_log |-> is_log ]

\* mutant: the internal list itself is returned
get_events_Alias(m) == ListObject(m.events, TRUE)

\* get_events: list(self._events), a new list with the same items
get_events(m) == ListObject(m.events, FALSE)

\* mutant: the lookup falls back to the entry of draft
EventTypeFor_DraftDefault(new_state) ==
    IF new_state \in DOMAIN STATE_TO_EVENT_TYPE
    THEN STATE_TO_EVENT_TYPE[new_state] ELSE STATE_TO_EVENT_TYPE["draft"]

\* STATE_TO_EVENT_TYPE.get(new_state, EventType.FIELD_UPDATED)
EventTypeFor(new_state) ==
    IF new_state \in DOMAIN STATE_TO_EVENT_TYPE
    THEN STATE_TO_EVENT_TYPE[new_state] ELSE "field.updated"

\* f"evt_{uuid.uuid4().hex[:16]}": a fresh identifier, named here by the
\* machine and the position of the event it is minted for
NewEventId(m) == << "evt", m.submission_id, Len(m.events) + 1 >>

\* mutant: from_state is read from the machine after the state mutation
emit_event_FromAfter(m, new_state, actor, old_state, ts) ==
    LET event == [ event_id      |-> NewEventId(m),
                   type          |-> EventTypeFor(new_state),
                   submission_id |-> m.submission_id,
                   ts            |-> ts,
                   actor         |-> actor,
                   state         |-> new_state,
                   payload       |-> Some([ from_state |-> m.state,
                                            to_state   |-> new_state ]) ]
    IN  [ m EXCEPT !.events = Append(m.events, event) ]

\* mutant: the event carries the state the machine left
emit_event_StateOld(m, new_state, actor, old_state, ts) ==
    LET event == [ event_id      |-> NewEventId(m),
                   type          |-> EventTypeFor(new_state),
                   submission_id |-> m.submission_id,
                   ts            |-> ts,
                   actor         |-> actor,
                   state         |-> old_state,
                   payload       |-> Some([ from_state |-> old_state,
                                            to_state   |-> new_state ]) ]
    IN  [ m EXCEPT !.events = Append(m.events, event) ]

\* _emit_event: build the IntakeEvent and append it to self._events
emit_event(m, new_state, actor, old_state, ts) ==
    LET event == [ event_id      |-> NewEventId(m),
                   type          |-> EventTypeFor(new_state),
                   submission_id |-> m.submission_id,
                   ts            |-> ts,
                   actor         |-> actor,
                   state         |-> new_state,
                   payload       |-> Some([ from_state |-> old_state,
                                            to_state   |-> new_state ]) ]
    IN  [ m EXCEPT !.events = Append(m.events, event) ]

\* mutant: the event is emitted but the state is not set
DoTransition_NoMove(m, target_state, actor, ts) ==
    emit_event(m, target_state, actor, m.state, ts)

\* transition_to when the check passes: state mutation, then _emit_event
DoTransition(m, target_state, actor, ts) ==
    LET old_state == m.state
        moved     == [ m EXCEPT !.state = target_state ]
    IN  emit_event(moved, target_state, actor, old_state, ts)

\* mutant: the state is set before the legality check
transition_to_SetFirst(m, target_state, actor, ts) ==
    IF ~ can_transition_to(m, target_state)
    THEN [ m EXCEPT !.state = target_state ]
    ELSE DoTransition(m, target_state, actor, ts)

\* transition_to: the machine after the call
transition_to(m, target_state, actor, ts) ==
    IF ~ can_transition_to(m, target_state)
    THEN m
    ELSE DoTransition(m, target_state, actor, ts)

\* transition_to: what the caller observes (normal return or the exception)
transition_outcome(m, target_state) ==
    IF ~ can_transition_to(m, target_state)
    THEN [ raised        |-> "InvalidStateTransitionError",
           current_state |-> m.state,
           target_state  |-> target_state ]
    ELSE [ raised |-> "none" ]

\* to_dict / from_dict: {submissionId, state}; the log is not serialized
sm_to_dict(m) == [ submissionId |-> m.submission_id, state |-> m.state ]

sm_from_dict(data) == SubmissionStateMachine(data.submissionId, data.state)

(***************************************************************************)
(* events.py: IntakeEvent.to_dict                                          *)
(***************************************************************************)
\* datetime.isoformat(): the timestamp as an ISO 8601 string
isoformat(ts) == << "iso8601", ts >>

\* IntakeEvent.to_dict: camelCase keys, payload only when not None
event_to_dict(e) ==
    LET result == [ eventId      |-> e.event_id,
                    type         |-> e.type,
                    submissionId |-> e.submission_id,
                    ts           |-> isoformat(e.ts),
                    actor        |-> actor_to_dict(e.actor),
                    state        |-> e.state ]
    IN  IF e.payload # None THEN Put(result, "payload", e.payload[1]) ELSE result

(***************************************************************************)
(* validation.py                                                           *)
(***************************************************************************)
\* The intake schema of the runtime under study (tests/test_integration.py,
\* test_create_with_partial_initial_fields): an object with two string
\* properties, both required.  Keys are listed in the order of the schema.
SchemaProperties == << "name", "email" >>

SchemaPropertyType == [ name |-> "string", email |-> "string" ]

SchemaRequired == << "name", "email" >>

\* a schema is a record of its keywords; "properties" is the list of
\* (name, subschema) pairs in the order of the schema's dict
Schema ==
    [ type       |-> "object",
      properties |-> [ i \in 1 .. Len(SchemaProperties) |->
                         << SchemaProperties[i],
                            [ type |-> SchemaPropertyType[SchemaProperties[i]] ] >> ],
      required   |-> SchemaRequired ]

\* a dict as a JSON value
DictV(d) == [ t |-> "dict", items |-> d ]

\* None as a JSON value
NullV == [ t |-> "NoneType", v |-> "None" ]

\* jsonschema's type keyword on the JSON values of the model
IsType(value, type) ==
    CASE type = "string"  -> value.t = "str"
      [] type = "integer" -> value.t = "int"
      [] type = "number"  -> value.t \in { "int", "float" }
      [] type = "object"  -> value.t = "dict"
      [] type = "array"   -> value.t = "list"
      [] type = "boolean" -> value.t = "bool"
      [] type = "null"    -> value.t = "NoneType"
      [] OTHER            -> FALSE

\* Draft7Validator(schema).iter_errors(instance) below path: every
\* diagnostic, keyword by keyword in the order type, properties, required
\* (the order of the keywords in the schemas of the model); properties
\* descends into the properties the instance has, required reports each
\* property the instance lacks; both pass over an instance that is no object
RECURSIVE iter_errors_at(_, _, _)
iter_errors_at(schema, instance, path) ==
    LET typeErrs ==
            IF "type" \in DOMAIN schema /\ ~ IsType(instance, schema.type)
            THEN << [ validator       |-> "type",
                      path            |-> path,
                      message         |-> << "type" >>,
                      validator_value |-> schema.type,
                      instance        |-> instance ] >>
            ELSE << >>
        props == IF "properties" \in DOMAIN schema /\ instance.t = "dict"
                 THEN schema.properties ELSE << >>
        PropErrs[i \in 0 .. Len(props)] ==
            IF i = 0 THEN << >>
            ELSE PropErrs[i - 1] \o
                 ( IF props[i][1] \in DOMAIN instance.items
                   THEN iter_errors_at(props[i][2], instance.items[props[i][1]],
                                       Append(path, props[i][1]))
                   ELSE << >> )
        req == IF "required" \in DOMAIN schema /\ instance.t = "dict"
               THEN schema.required ELSE << >>
        ReqErrs[i \in 0 .. Len(req)] ==
            IF i = 0 THEN << >>
            ELSE ReqErrs[i - 1] \o
                 ( IF req[i] \notin DOMAIN instance.items
                   THEN << [ validator       |-> "required",
                             path            |-> path,
                             message         |-> << "", req[i],
                                                   " is a required property" >>,
                             validator_value |-> req,
                             instance        |-> instance ] >>
                   ELSE << >> )
    IN  typeErrs \o PropErrs[Len(props)] \o ReqErrs[Len(req)]

\* list(self.validator.iter_errors(data)) of the engine of the runtime
iter_errors(data) == iter_errors_at(Schema, DictV(data), << >>)

\* ".".join(str(p) for p in error.path) if error.path else ""
JoinPath(path) ==
    LET J[i \in 0 .. Len(path)] ==
            IF i = 0 THEN ""
            ELSE IF i = 1 THEN path[1]
            ELSE J[i - 1] \o "." \o path[i]
    IN  J[Len(path)]

\* f"{path}.{missing_prop}"
DotPath(path, prop) == path \o "." \o prop

\* "len(error.instance) if error.instance else 0", as f"{...} characters"
\* (the length of a string literal is held symbolically)
ActualLength(instance) ==
    IF instance.t = "str" /\ instance.v # ""
    THEN << "len", instance.v, "characters" >>
    ELSE << 0, "characters" >>

\* ValidationEngine._translate_error: the FieldError of one diagnostic
\* (error.message is held as its pieces around the quote character, so
\* message.split("'")[1] is its second piece)
translate_error(error) ==
    LET path == JoinPath(error.path)
    IN  CASE error.validator = "required" ->
               LET missing_prop == IF Len(error.message) > 1
                                   THEN error.message[2] ELSE "field"
                   full_path == IF path # "" THEN DotPath(path, missing_prop)
                                ELSE missing_prop
               IN  [ path |-> full_path, code |-> "required",
                     expected |-> Some("required field"), received |-> None ]
          [] error.validator = "type" ->
               [ path |-> path, code |-> "invalid_type",
                 expected |-> Some(error.validator_value),
                 received |-> Some(error.instance.t) ]
          [] error.validator = "format" ->
               [ path |-> path, code |-> "invalid_format",
                 expected |-> Some(error.validator_value),
                 received |-> Some(error.instance) ]
          [] error.validator \in { "enum", "const" } ->
               [ path |-> path, code |-> "invalid_value",
                 expected |-> Some(error.validator_value),
                 received |-> Some(error.instance) ]
          [] error.validator = "minLength" ->
               [ path |-> path, code |-> "too_short",
                 expected |-> Some(<< "minimum", error.validator_value,
                                      "characters" >>),
                 received |-> Some(ActualLength(error.instance)) ]
          [] error.validator = "maxLength" ->
               [ path |-> path, code |-> "too_long",
                 expected |-> Some(<< "maximum", error.validator_value,
                                      "characters" >>),
                 received |-> Some(ActualLength(error.instance)) ]
          [] error.validator \in { "minimum", "maximum", "exclusiveMinimum",
                                   "exclusiveMaximum" } ->
               [ path |-> path, code |-> "invalid_value",
                 expected |-> Some(<< error.validator, error.validator_value >>),
                 received |-> Some(error.instance) ]
          [] error.validator = "pattern" ->
               [ path |-> path, code |-> "invalid_format",
                 expected |-> Some(<< "pattern", error.validator_value >>),
                 received |-> Some(error.instance) ]
          [] OTHER ->
               [ path |-> path, code |-> "custom",
                 expected |-> Some(error.validator_value),
                 received |-> Some(error.instance) ]

\* the paths of the required errors (or of the other errors) of errs, in order
PathsWhere(errs, required) ==
    LET P[i \in 0 .. Len(errs)] ==
            IF i = 0 THEN << >>
            ELSE IF (errs[i].code = "required") = required
                 THEN Append(P[i - 1], errs[i].path)
                 ELSE P[i - 1]
    IN  P[Len(errs)]

\* ValidationEngine.validate, on the diagnostics errors of data
ValidationResult(errors, data) ==
    LET field_errors == [ i \in 1 .. Len(errors) |-> translate_error(errors[i]) ]
    IN  IF Len(errors) = 0
        THEN [ is_valid       |-> TRUE,
               errors         |-> << >>,
               data           |-> data,
               missing_fields |-> << >>,
               invalid_fields |-> << >> ]
        ELSE [ is_valid       |-> FALSE,
               errors         |-> field_errors,
               data           |-> data,
               missing_fields |-> PathsWhere(field_errors, TRUE),
               invalid_fields |-> PathsWhere(field_errors, FALSE) ]

\* ValidationEngine(schema).validate(data)
engine_validate(schema, data) ==
    ValidationResult(iter_errors_at(schema, DictV(data), << >>), data)

\* self._validation_engine.validate(data) of the runtime
validate(data) == ValidationResult(iter_errors(data), data)

(***************************************************************************)
(* State                                                                   *)
(***************************************************************************)
VARIABLES
    sm,                \* a SubmissionStateMachine built by a caller, or NoSM
    submissions,       \* IntakeRuntime._submissions
    state_machines,    \* IntakeRuntime._state_machines
    resume_tokens,     \* IntakeRuntime._resume_tokens
    submission_data,   \* IntakeRuntime._submission_data
    idempotency_keys,  \* IntakeRuntime._idempotency_keys
    now,               \* the value datetime.now(timezone.utc) returns
    call,              \* the call that has just run (NoCall: the caller is idle)
    reply,             \* what that call returned or raised
    firstReply,        \* history: per supplied key, the first success reply
    listeners,         \* EventEmitter._listeners
    any_listeners,     \* EventEmitter._any_listeners
    calls,             \* the list the listener "f" appends event ids to
    threads,           \* the transition_to calls in flight on sm, per thread
    dispatching        \* the loop of the emit call in progress, or NoEmit

vars == << sm, submissions, state_machines, resume_tokens, submission_data,
           idempotency_keys, now, call, reply, firstReply,
           listeners, any_listeners, calls, threads, dispatching >>

emVars == << listeners, any_listeners, calls, dispatching >>

rtVars == << submissions, state_machines, resume_tokens, submission_data,
             idempotency_keys, firstReply >>

NoSM == [ submission_id |-> "none" ]
NoCall == [ op |-> "none" ]
NoReply == [ raised |-> "none" ]
NoEmit == [ phase |-> "idle" ]

\* the threads that call transition_to on one shared machine, all idle
ThreadIds == { "t1", "t2" }
NoThreads == [ t \in ThreadIds |-> [ pc |-> "idle" ] ]

\* the caller takes the reply of its call; calls are made one at a time
Return ==
    /\ call # NoCall
    /\ dispatching = NoEmit
    /\ call' = NoCall
    /\ reply' = NoReply
    /\ UNCHANGED << sm, now, rtVars, emVars, threads >>

(***************************************************************************)
(* runtime.py                                                              *)
(***************************************************************************)
IntakeId == "test_intake"

\* mutant: every submission gets the identifier of the first one
NewSubmissionId_Reused == << "sub", 1 >>

\* f"sub_{uuid.uuid4().hex[:16]}": a fresh identifier, named by its rank
NewSubmissionId == << "sub", Cardinality(DOMAIN state_machines) + 1 >>

\* mutant: the token generator returns the same token every time
generate_resume_token_Reused == << "rt", 1 >>

\* _generate_resume_token: f"rt_{secrets.token_urlsafe(32)}", a fresh token
generate_resume_token == << "rt", Cardinality(DOMAIN resume_tokens) + 1 >>

\* actor normalization of create_submission: the exception it raises, if any
\* (actor["kind"], then ActorKind(...), then actor["id"])
ActorError(actor) ==
    IF "kind" \notin DOMAIN actor THEN "KeyError"
    ELSE IF actor.kind \notin ActorKind THEN "ValueError"
    ELSE IF "id" \notin DOMAIN actor THEN "KeyError"
    ELSE "none"

\* Actor(kind=ActorKind(actor["kind"]), id=actor["id"],
\*       name=actor.get("name"), metadata=actor.get("metadata"))
NormalizeActor(actor) ==
    Actor(actor.kind, actor.id,
          IF "name" \in DOMAIN actor THEN Some(actor.name) ELSE None,
          IF "metadata" \in DOMAIN actor THEN Some(actor.metadata) ELSE None)

\* mutant: the reply reports the state recorded at creation
get_submission_response_Stale(submission_id) ==
    IF submission_id \notin DOMAIN submissions
       \/ submission_id \notin DOMAIN state_machines
    THEN [ raised |-> "ValueError" ]
    ELSE [ raised      |-> "none",
           ok          |-> TRUE,
           submissionId |-> submission_id,
           state       |-> submissions[submission_id].state,
           resumeToken |-> submissions[submission_id].resume_token,
           schema      |-> Schema ]

\* _get_submission_response
get_submission_response(submission_id) ==
    IF submission_id \notin DOMAIN submissions
       \/ submission_id \notin DOMAIN state_machines
    THEN [ raised |-> "ValueError" ]
    ELSE [ raised      |-> "none",
           ok          |-> TRUE,
           submissionId |-> submission_id,
           state       |-> state_machines[submission_id].state,
           resumeToken |-> submissions[submission_id].resume_token,
           schema      |-> Schema ]

\* mutant: the envelope reports the state recorded at creation
get_submission_Stale(submission_id) ==
    IF submission_id \notin DOMAIN submissions
       \/ submission_id \notin DOMAIN state_machines
    THEN [ raised |-> "ValueError" ]
    ELSE LET data == IF submission_id \in DOMAIN submission_data
                     THEN submission_data[submission_id] ELSE EmptyMap
             events == state_machines[submission_id].events
         IN  [ raised       |-> "none",
               ok           |-> TRUE,
               submissionId |-> submission_id,
               intakeId     |-> IntakeId,
               state        |-> submissions[submission_id].state,
               resumeToken  |-> submissions[submission_id].resume_token,
               fields       |-> data,
               events       |-> [ i \in 1 .. Len(events) |->
                                    event_to_dict(events[i]) ],
               createdBy    |-> submissions[submission_id].created_by ]

\* get_submission: the detailed envelope
get_submission(submission_id) ==
    IF submission_id \notin DOMAIN submissions
       \/ submission_id \notin DOMAIN state_machines
    THEN [ raised |-> "ValueError" ]
    ELSE LET data == IF submission_id \in DOMAIN submission_data
                     THEN submission_data[submission_id] ELSE EmptyMap
             events == state_machines[submission_id].events
         IN  [ raised       |-> "none",
               ok           |-> TRUE,
               submissionId |-> submission_id,
               intakeId     |-> IntakeId,
               state        |-> state_machines[submission_id].state,
               resumeToken  |-> submissions[submission_id].resume_token,
               fields       |-> data,
               events       |-> [ i \in 1 .. Len(events) |->
                                    event_to_dict(events[i]) ],
               createdBy    |-> submissions[submission_id].created_by ]

\* mutant: the transition is made whenever initial_fields is not None
CreatedMachine_NotNone(submission_id, actor, initial_fields) ==
    LET state_machine == SubmissionStateMachine(submission_id, "draft")
    IN  IF initial_fields # None
        THEN transition_to(state_machine, "in_progress", actor, now)
        ELSE state_machine

\* create_submission past the idempotency check and the actor normalization:
\* the new state machine
CreatedMachine(submission_id, actor, initial_fields) ==
    LET state_machine == SubmissionStateMachine(submission_id, "draft")
    IN  IF TruthyDict(initial_fields)
        THEN transition_to(state_machine, "in_progress", actor, now)
        ELSE state_machine

\* the state create_submission reports and records
CreatedState(initial_fields) ==
    IF TruthyDict(initial_fields) THEN "in_progress" ELSE "draft"

\* mutant: missingFields is attached whether or not the fields validate
CreatedResponse_AlwaysMissing(submission_id, resume_token, initial_fields) ==
    LET response == [ raised       |-> "none",
                      ok           |-> TRUE,
                      submissionId |-> submission_id,
                      state        |-> CreatedState(initial_fields),
                      resumeToken  |-> resume_token,
                      schema       |-> Schema ]
    IN  IF TruthyDict(initial_fields)
        THEN Put(response, "missingFields",
                 validate(initial_fields[1]).missing_fields)
        ELSE response

\* the success reply of a creation
CreatedResponse(submission_id, resume_token, initial_fields) ==
    LET response == [ raised       |-> "none",
                      ok           |-> TRUE,
                      submissionId |-> submission_id,
                      state        |-> CreatedState(initial_fields),
                      resumeToken  |-> resume_token,
                      schema       |-> Schema ]
    IN  IF TruthyDict(initial_fields)
        THEN LET validation_result == validate(initial_fields[1])
             IN  IF ~ validation_result.is_valid
                 THEN Put(response, "missingFields",
                          validation_result.missing_fields)
                 ELSE response
        ELSE response

\* mutant: the record stores a token other than the one handed out
SubmissionRecord_OtherToken(submission_id, resume_token, actor, initial_fields, ttl_ms) ==
    [ submission_id |-> submission_id,
      intake_id     |-> IntakeId,
      state         |-> CreatedState(initial_fields),
      resume_token  |-> << "rt", 0 >>,
      created_by    |-> actor_to_dict(actor),
      ttl_ms        |-> ttl_ms ]

\* the record stored in _submissions
SubmissionRecord(submission_id, resume_token, actor, initial_fields, ttl_ms) ==
    [ submission_id |-> submission_id,
      intake_id     |-> IntakeId,
      state         |-> CreatedState(initial_fields),
      resume_token  |-> resume_token,
      created_by    |-> actor_to_dict(actor),
      ttl_ms        |-> ttl_ms ]

\* mutant: the key is never looked up
IdempotentHit_Never(idempotency_key) == FALSE

\* "if idempotency_key: if idempotency_key in self._idempotency_keys"
IdempotentHit(idempotency_key) ==
    /\ TruthyStr(idempotency_key)
    /\ idempotency_key[1] \in DOMAIN idempotency_keys

\* "if idempotency_key: self._idempotency_keys[idempotency_key] = submission_id"
StoreIdempotencyKey(idempotency_key, submission_id) ==
    IF TruthyStr(idempotency_key)
    THEN Put(idempotency_keys, idempotency_key[1], submission_id)
    ELSE idempotency_keys

\* "self._submission_data[submission_id] = initial_fields or {}"
StoredFields(initial_fields) ==
    IF TruthyDict(initial_fields) THEN initial_fields[1] ELSE EmptyMap

\* history: the first success reply of a call that carried the key
RecordFirstReply(idempotency_key, r) ==
    IF /\ idempotency_key # None
       /\ r.raised = "none"
       /\ idempotency_key[1] \notin DOMAIN firstReply
    THEN Put(firstReply, idempotency_key[1],
             [ submissionId |-> r.submissionId,
               resumeToken  |-> r.resumeToken ])
    ELSE firstReply

\* mutant: the idempotency key is recorded before the actor is normalized
CreateSubmission_KeyFirst(actor, idempotency_key, initial_fields, ttl_ms) ==
    /\ call = NoCall
    /\ call' = [ op              |-> "create_submission",
                 actor           |-> actor,
                 idempotency_key |-> idempotency_key,
                 initial_fields  |-> initial_fields,
                 ttl_ms          |-> ttl_ms ]
    /\ IF IdempotentHit(idempotency_key)
       THEN /\ reply' = get_submission_response(
                            idempotency_keys[idempotency_key[1]])
            /\ UNCHANGED << submissions, state_machines, resume_tokens,
                            submission_data, idempotency_keys >>
       ELSE IF ActorError(actor) # "none"
       THEN /\ reply' = [ raised |-> ActorError(actor) ]
            /\ idempotency_keys' =
                  StoreIdempotencyKey(idempotency_key, NewSubmissionId)
            /\ UNCHANGED << submissions, state_machines, resume_tokens,
                            submission_data >>
       ELSE LET norm          == NormalizeActor(actor)
                submission_id == NewSubmissionId
                resume_token  == generate_resume_token
            IN  /\ state_machines' =
                      Put(state_machines, submission_id,
                          CreatedMachine(submission_id, norm, initial_fields))
                /\ resume_tokens' =
                      Put(resume_tokens, resume_token, submission_id)
                /\ submission_data' =
                      Put(submission_data, submission_id,
                          StoredFields(initial_fields))
                /\ idempotency_keys' =
                      StoreIdempotencyKey(idempotency_key, submission_id)
                /\ reply' = CreatedResponse(submission_id, resume_token,
                                            initial_fields)
                /\ submissions' =
                      Put(submissions, submission_id,
                          SubmissionRecord(submission_id, resume_token, norm,
                                           initial_fields, ttl_ms))
    /\ firstReply' = RecordFirstReply(idempotency_key, reply')
    /\ UNCHANGED << sm, now, emVars, threads >>

\* runtime.create_submission(actor, idempotency_key, initial_fields, ttl_ms)
CreateSubmission(actor, idempotency_key, initial_fields, ttl_ms) ==
    /\ call = NoCall
    /\ call' = [ op              |-> "create_submission",
                 actor           |-> actor,
                 idempotency_key |-> idempotency_key,
                 initial_fields  |-> initial_fields,
                 ttl_ms          |-> ttl_ms ]
    /\ IF IdempotentHit(idempotency_key)
       THEN /\ reply' = get_submission_response(
                            idempotency_keys[idempotency_key[1]])
            /\ UNCHANGED << submissions, state_machines, resume_tokens,
                            submission_data, idempotency_keys >>
       ELSE IF ActorError(actor) # "none"
       THEN /\ reply' = [ raised |-> ActorError(actor) ]
            /\ UNCHANGED << submissions, state_machines, resume_tokens,
                            submission_data, idempotency_keys >>
       ELSE LET norm          == NormalizeActor(actor)
                submission_id == NewSubmissionId
                resume_token  == generate_resume_token
            IN  /\ state_machines' =
                      Put(state_machines, submission_id,
                          CreatedMachine(submission_id, norm, initial_fields))
                /\ resume_tokens' =
                      Put(resume_tokens, resume_token, submission_id)
                /\ submission_data' =
                      Put(submission_data, submission_id,
                          StoredFields(initial_fields))
                /\ idempotency_keys' =
                      StoreIdempotencyKey(idempotency_key, submission_id)
                /\ reply' = CreatedResponse(submission_id, resume_token,
                                            initial_fields)
                /\ submissions' =
                      Put(submissions, submission_id,
                          SubmissionRecord(submission_id, resume_token, norm,
                                           initial_fields, ttl_ms))
    /\ firstReply' = RecordFirstReply(idempotency_key, reply')
    /\ UNCHANGED << sm, now, emVars, threads >>

\* runtime.get_submission(submission_id)
GetSubmission(submission_id) ==
    /\ call = NoCall
    /\ call' = [ op |-> "get_submission", submission_id |-> submission_id ]
    /\ reply' = get_submission(submission_id)
    /\ UNCHANGED << sm, now, rtVars, emVars, threads >>

\* runtime._state_machines[submission_id].transition_to(target_state, actor)
RtTransitionTo(submission_id, target_state, actor) ==
    /\ call = NoCall
    /\ submission_id \in DOMAIN state_machines
    /\ LET m == state_machines[submission_id]
       IN  /\ state_machines' =
                 Put(state_machines, submission_id,
                     transition_to(m, target_state, actor, now))
           /\ reply' = transition_outcome(m, target_state)
    /\ call' = [ op            |-> "transition_to",
                 submission_id |-> submission_id,
                 target_state  |-> target_state,
                 actor         |-> actor ]
    /\ UNCHANGED << sm, now, submissions, resume_tokens, submission_data,
                    idempotency_keys, firstReply, emVars, threads >>

(***************************************************************************)
(* Inputs                                                                  *)
(***************************************************************************)
AgentDict == [ kind |-> "agent", id |-> "bot_1" ]
HumanDict == [ kind |-> "human", id |-> "user_1", name |-> "Jane Doe" ]
RobotDict == [ kind |-> "robot", id |-> "bot_9" ]
NoIdDict  == [ kind |-> "agent" ]
NoKindDict == [ id |-> "bot_1" ]

FullDoc       == [ name |-> Str("Alice"), email |-> Str("a@b.co") ]
PartialDoc    == [ name |-> Str("Alice") ]
BadTypeDoc    == [ name |-> IntV("42"), email |-> Str("a@b.co") ]
BadPartialDoc == [ name |-> IntV("42") ]

\* (actor, initial_fields, ttl_ms) of the create_submission calls
CreateRequests ==
    { << AgentDict, None, None >>,
      << HumanDict, Some(EmptyMap), Some(60000) >>,
      << HumanDict, Some(FullDoc), Some(60000) >>,
      << AgentDict, Some(PartialDoc), None >>,
      << AgentDict, Some(BadTypeDoc), Some(60000) >>,
      << HumanDict, Some(BadPartialDoc), None >>,
      << RobotDict, Some(FullDoc), None >>,
      << NoIdDict, None, Some(60000) >>,
      << NoKindDict, Some(FullDoc), None >> }

\* the request shapes of the specification with several submissions
FewRequests ==
    { << AgentDict, None, None >>,
      << HumanDict, Some(FullDoc), Some(60000) >>,
      << RobotDict, Some(FullDoc), None >> }

\* idempotency_key of the create_submission calls
IdempotencyKeys == { None, Some(""), Some("key_1"), Some("key_2") }

UnknownSubmissionId == << "sub", 0 >>

\* the targets callers ask of the machines the runtime holds (SpecSM asks
\* every target of a machine)
RtTargets == { "in_progress", "submitted", "cancelled" }

(***************************************************************************)
(* Specifications of one IntakeRuntime                                     *)
(***************************************************************************)
Init ==
    /\ sm = NoSM
    /\ submissions = EmptyMap
    /\ state_machines = EmptyMap
    /\ resume_tokens = EmptyMap
    /\ submission_data = EmptyMap
    /\ idempotency_keys = EmptyMap
    /\ firstReply = EmptyMap
    /\ now = 0
    /\ call = NoCall
    /\ reply = NoReply
    /\ listeners = EmptyMap
    /\ any_listeners = << >>
    /\ calls = << >>
    /\ threads = NoThreads
    /\ dispatching = NoEmit

\* the call creates a submission (no idempotent hit, no actor error)
Creates(actor, idempotency_key) ==
    ~ IdempotentHit(idempotency_key) /\ ActorError(actor) = "none"

\* transition_to calls that succeeded on the machines the runtime holds
\* (the events of the logs that creation itself did not mint)
RtEvents ==
    LET n == Cardinality(DOMAIN state_machines)
        S[i \in 0 .. n] ==
            IF i = 0 THEN 0
            ELSE S[i - 1] + Len(state_machines[<< "sub", i >>].events)
                 - ( IF submissions[<< "sub", i >>].state = "in_progress"
                     THEN 1 ELSE 0 )
    IN  S[n]

CreateOver(requests, maxSubs) ==
    \E r \in requests, k \in IdempotencyKeys :
        /\ Creates(r[1], k) => Cardinality(DOMAIN state_machines) < maxSubs
        /\ CreateSubmission(r[1], k, r[2], r[3])

Get ==
    \E id \in DOMAIN state_machines \cup { UnknownSubmissionId } :
        GetSubmission(id)

Transition ==
    \E id \in DOMAIN state_machines, target_state \in RtTargets,
       actor \in Actors :
        /\ can_transition_to(state_machines[id], target_state)
             => RtEvents < MaxRtEvents
        /\ RtTransitionTo(id, target_state, actor)

\* Spec: several submissions of a few request shapes
Create == CreateOver(FewRequests, MaxSubs)

Next == Create \/ Get \/ Transition \/ Return

Spec == Init /\ [][Next]_vars

\* SpecCreate: every request shape
CreateAny == CreateOver(CreateRequests, MaxCreated)

NextCreate == CreateAny \/ Get \/ Transition \/ Return

SpecCreate == Init /\ [][NextCreate]_vars

(***************************************************************************)
(* SpecSM: one state machine instance of a caller                          *)
(***************************************************************************)
SMIds == { "sub_123" }

\* sm = SubmissionStateMachine(submission_id=...)
SMConstruct ==
    /\ call = NoCall
    /\ sm = NoSM
    /\ \E id \in SMIds :
         /\ sm' = SubmissionStateMachine(id, "draft")
         /\ call' = [ op |-> "SubmissionStateMachine", submission_id |-> id ]
    /\ reply' = NoReply
    /\ UNCHANGED << now, rtVars, emVars, threads >>

\* sm = SubmissionStateMachine.from_dict({submissionId, state})
SMFromDict ==
    /\ call = NoCall
    /\ sm = NoSM
    /\ \E id \in SMIds, st \in SubmissionState :
         LET data == [ submissionId |-> id, state |-> st ]
         IN  /\ sm' = sm_from_dict(data)
             /\ call' = [ op |-> "from_dict", data |-> data ]
    /\ reply' = NoReply
    /\ UNCHANGED << now, rtVars, emVars, threads >>

\* sm.transition_to(target_state, actor)
SMTransitionTo ==
    /\ call = NoCall
    /\ sm # NoSM
    /\ \E target_state \in SubmissionState, actor \in Actors :
         /\ can_transition_to(sm, target_state) => Len(sm.events) < MaxEvents
         /\ sm' = transition_to(sm, target_state, actor, now)
         /\ reply' = transition_outcome(sm, target_state)
         /\ call' = [ op            |-> "transition_to",
                      submission_id |-> sm.submission_id,
                      target_state  |-> target_state,
                      actor         |-> actor ]
    /\ UNCHANGED << now, rtVars, emVars, threads >>

NextSM == SMConstruct \/ SMFromDict \/ SMTransitionTo \/ Return

SpecSM == Init /\ [][NextSM]_vars

(***************************************************************************)
(* SpecAll: a behaviour drives either a caller's own state machine or a    *)
(* runtime (every request shape)                                           *)
(***************************************************************************)
NextAll ==
    \/ /\ DOMAIN state_machines = {}
       /\ (SMConstruct \/ SMFromDict \/ SMTransitionTo)
    \/ /\ sm = NoSM
       /\ (CreateAny \/ Get \/ Transition)
    \/ Return

SpecAll == Init /\ [][NextAll]_vars

(***************************************************************************)
(* Properties of the state machine                                         *)
(***************************************************************************)
\* the transition table as the specification states it (section 4.1)
TransitionTable ==
    [ draft           |-> { "in_progress", "cancelled", "expired" },
      in_progress     |-> { "awaiting_input", "awaiting_upload", "submitted",
                            "cancelled", "expired" },
      awaiting_input  |-> { "in_progress", "cancelled", "expired" },
      awaiting_upload |-> { "in_progress", "cancelled", "expired" },
      submitted       |-> { "needs_review", "finalized", "rejected",
                            "cancelled", "expired" },
      needs_review    |-> { "approved", "rejected", "cancelled", "expired" },
      approved        |-> { "finalized", "cancelled", "expired" },
      rejected        |-> {},
      finalized       |-> {},
      cancelled       |-> {},
      expired         |-> {} ]

TerminalStates == { "finalized", "rejected", "cancelled", "expired" }

\* a transition_to call on sm has just run
SMCalled == call.op = "transition_to" /\ sm # NoSM

\* C1: the state moves only along edges of the transition table:
\* transition_to(target) succeeds iff target is an allowed target of the
\* current state, a state change is an edge of the table, and
\* can_transition_to(target) is exactly that membership.
C1_MovesAlongEdges ==
    [][ /\ call'.op = "transition_to" =>
              /\ (reply'.raised = "none")
                    <=> (call'.target_state \in TransitionTable[sm.state])
              /\ sm'.state # sm.state
                    => /\ sm'.state \in TransitionTable[sm.state]
                       /\ sm'.state = call'.target_state
        /\ sm' # NoSM =>
              \A t \in SubmissionState :
                  can_transition_to(sm', t) <=> (t \in TransitionTable[sm'.state])
      ]_vars

\* C1 witness: a chain of legal transitions has reached finalized
C1_Witness ==
    /\ SMCalled
    /\ reply.raised = "none"
    /\ sm.state = "finalized"
    /\ Len(sm.events) >= 3

\* C2: for every (src, dst) that is no edge of the table, transition_to(dst)
\* in state src fails with InvalidTransition carrying current_state = src and
\* target_state = dst, leaves the state equal to src and appends no event.
C2_IllegalFails ==
    [][ ( /\ call'.op = "transition_to"
          /\ call'.target_state \notin TransitionTable[sm.state] )
        => /\ reply' = [ raised        |-> "InvalidStateTransitionError",
                         current_state |-> sm.state,
                         target_state  |-> call'.target_state ]
           /\ sm'.state = sm.state
           /\ sm'.events = sm.events
      ]_vars

\* C2 witness: an illegal transition was refused on a machine with a log
C2_Witness ==
    /\ SMCalled
    /\ reply.raised = "InvalidStateTransitionError"
    /\ reply.current_state = "in_progress"
    /\ reply.target_state = "finalized"
    /\ sm.state = "in_progress"
    /\ Len(sm.events) >= 1

\* C3: terminal states are absorbing: once the state is finalized, rejected,
\* cancelled or expired, every transition_to attempt fails with
\* InvalidTransition and the state and the event log stay as they are.
C3_TerminalAbsorbing ==
    [][ ( sm # NoSM /\ sm.state \in TerminalStates )
        => /\ sm' = sm
           /\ call'.op = "transition_to"
                 => /\ reply'.raised = "InvalidStateTransitionError"
                    /\ reply'.current_state = sm.state
      ]_vars

\* C3 witness: a transition was refused in a terminal state reached by
\* transitions
C3_Witness ==
    /\ SMCalled
    /\ sm.state \in TerminalStates
    /\ Len(sm.events) >= 2
    /\ reply.raised = "InvalidStateTransitionError"
    /\ reply.target_state = "in_progress"

IsPrefix(s, t) == Len(s) <= Len(t) /\ SubSeq(t, 1, Len(s)) = s

\* C5: a legal transition_to(target, actor) sets the state to target and
\* appends exactly one event at the end of the log, carrying the machine's
\* submission_id, the actor of the call, state = target and
\* payload = {from_state: the state before, to_state: target}; the log
\* changes in no other way, and every event carries the submission_id.
C5_LegalAppendsOneEvent ==
    [][ /\ ( call'.op = "transition_to" /\ reply'.raised = "none" )
           => /\ sm'.state = call'.target_state
              /\ Len(sm'.events) = Len(sm.events) + 1
              /\ IsPrefix(sm.events, sm'.events)
              /\ LET e == sm'.events[Len(sm'.events)]
                 IN  /\ e.submission_id = sm.submission_id
                     /\ e.actor = call'.actor
                     /\ e.state = call'.target_state
                     /\ e.payload = Some([ from_state |-> sm.state,
                                           to_state   |-> call'.target_state ])
        /\ ( sm # NoSM /\ sm'.events # sm.events )
           => ( call'.op = "transition_to" /\ reply'.raised = "none" )
        /\ sm' # NoSM
           => \A i \in 1 .. Len(sm'.events) :
                 sm'.events[i].submission_id = sm'.submission_id
      ]_vars

\* C5 witness: two transitions by different actors are in the log
C5_Witness ==
    /\ SMCalled
    /\ reply.raised = "none"
    /\ Len(sm.events) = 2
    /\ sm.events[1].actor.kind = "agent"
    /\ sm.events[2].actor.kind = "human"
    /\ sm.events[2].state = "submitted"

\* the event type of each target state as the specification states it
EventTypeOfTarget ==
    [ in_progress     |-> "field.updated",
      awaiting_input  |-> "field.updated",
      awaiting_upload |-> "field.updated",
      submitted       |-> "submission.submitted",
      needs_review    |-> "review.requested",
      approved        |-> "review.approved",
      rejected        |-> "review.rejected",
      finalized       |-> "submission.finalized",
      cancelled       |-> "submission.cancelled",
      expired         |-> "submission.expired" ]

ApprovalPath ==
    << "in_progress", "submitted", "needs_review", "approved", "finalized" >>

ApprovalTypes ==
    << "field.updated", "submission.submitted", "review.requested",
       "review.approved", "submission.finalized" >>

\* C7: the type of the event of a legal transition is a function of the
\* target state alone, as the table above gives it; the path draft ->
\* in_progress -> submitted -> needs_review -> approved -> finalized yields
\* [field.updated, submission.submitted, review.requested, review.approved,
\* submission.finalized].
C7_EventTypeByTarget ==
    sm # NoSM =>
       /\ \A i \in 1 .. Len(sm.events) :
             /\ sm.events[i].state \in DOMAIN EventTypeOfTarget
             /\ sm.events[i].type = EventTypeOfTarget[sm.events[i].state]
       /\ ( /\ Len(sm.events) = Len(ApprovalPath)
            /\ \A i \in 1 .. Len(ApprovalPath) :
                  sm.events[i].state = ApprovalPath[i] )
          => [ i \in 1 .. Len(sm.events) |-> sm.events[i].type ] = ApprovalTypes

\* C7 witness: the approval path has been walked from draft
C7_Witness ==
    /\ sm # NoSM
    /\ Len(sm.events) = Len(ApprovalPath)
    /\ sm.events[1].payload[1].from_state = "draft"
    /\ \A i \in 1 .. Len(ApprovalPath) : sm.events[i].state = ApprovalPath[i]

(***************************************************************************)
(* Properties of the event log                                             *)
(***************************************************************************)
\* every state machine of the model: the caller's own and the runtime's
Machines ==
    ( IF sm = NoSM THEN {} ELSE { sm } )
    \cup { state_machines[id] : id \in DOMAIN state_machines }

LastEventMatches(m) ==
    Len(m.events) > 0 => m.events[Len(m.events)].state = m.state

RuntimeMaps ==
    << submissions, state_machines, resume_tokens, submission_data,
       idempotency_keys >>

\* the create_submission call of this step carries a key that an earlier
\* successful call carried
KeySeenBefore ==
    /\ call'.op = "create_submission"
    /\ call'.idempotency_key # None
    /\ call'.idempotency_key[1] \in DOMAIN firstReply

\* the reply of this step is the current envelope of the submission of the
\* first reply, and nothing was created
RepliesPrior ==
    LET first == firstReply[call'.idempotency_key[1]]
    IN  /\ reply'.raised = "none"
        /\ reply'.ok
        /\ reply'.submissionId = first.submissionId
        /\ reply'.resumeToken = first.resumeToken
        /\ reply'.state = state_machines[first.submissionId].state
        /\ UNCHANGED RuntimeMaps

\* C4 as stated: for every idempotency key k, every create_submission call
\* carrying k after the first one returns a success reply with the first
\* reply's submissionId and resumeToken and the submission's current state,
\* whatever else the call carries, and creates no submission.
C4_Original == [][ KeySeenBefore => RepliesPrior ]_vars

\* C4 amended: the same for every non-empty key; the empty string is no key.
C4_IdempotentReplay ==
    [][ ( KeySeenBefore /\ call'.idempotency_key[1] # "" ) => RepliesPrior ]_vars

\* C4 witness: a call with a seen key and an actor that creation would
\* refuse was answered with the envelope of a cancelled submission
C4_Witness ==
    /\ call.op = "create_submission"
    /\ call.idempotency_key = Some("key_1")
    /\ call.actor = RobotDict
    /\ reply.raised = "none"
    /\ reply.state = "cancelled"
    /\ reply.submissionId = firstReply["key_1"].submissionId

TokensOf(id) == { t \in DOMAIN resume_tokens : resume_tokens[t] = id }

\* tokens and submissions correspond one to one, in the maps and in the reply
TokensBijective ==
    /\ DOMAIN submissions = DOMAIN state_machines
    /\ \A id \in DOMAIN submissions :
          TokensOf(id) = { submissions[id].resume_token }
    /\ \A t \in DOMAIN resume_tokens : resume_tokens[t] \in DOMAIN submissions
    /\ \A a, b \in DOMAIN submissions :
          submissions[a].resume_token = submissions[b].resume_token => a = b
    /\ ( reply.raised = "none" /\ "resumeToken" \in DOMAIN reply )
          => /\ reply.resumeToken \in DOMAIN resume_tokens
             /\ resume_tokens[reply.resumeToken] = reply.submissionId
             /\ submissions[reply.submissionId].resume_token = reply.resumeToken

\* C8: resume tokens and submissions are in one-to-one correspondence:
\* every submission has exactly one token for its whole lifetime, no two
\* submissions share one, the token map sends each token to the submission
\* whose record and replies carry it, and no later operation changes or adds
\* a token of an existing submission.
C8_TokenBijection ==
    [][ /\ TokensBijective'
        /\ \A t \in DOMAIN resume_tokens :
              /\ t \in DOMAIN resume_tokens'
              /\ resume_tokens'[t] = resume_tokens[t]
        /\ \A id \in DOMAIN submissions :
              /\ id \in DOMAIN submissions'
              /\ submissions'[id].resume_token = submissions[id].resume_token
      ]_vars

\* C8 witness: with two submissions held, a replay returned the first one
C8_Witness ==
    /\ Cardinality(DOMAIN submissions) = 2
    /\ call.op = "create_submission"
    /\ reply.raised = "none"
    /\ reply.submissionId = << "sub", 1 >>
    /\ reply.resumeToken # submissions[<< "sub", 2 >>].resume_token

\* the create_submission call of this step created a submission
FreshCreate ==
    /\ call'.op = "create_submission"
    /\ reply'.raised = "none"
    /\ reply'.submissionId \notin DOMAIN submissions

\* C9: the initial state of a new submission is decided by initial_fields
\* alone: absent or empty, the submission is in draft and no transition has
\* been made; non-empty, the machine has been moved draft -> in_progress by
\* the creating actor (one field.updated event), the reply's state is
\* in_progress, and the fields are stored whether or not they validate.
C9_InitialState ==
    [][ FreshCreate =>
          LET id == reply'.submissionId
              f  == call'.initial_fields
              m  == state_machines'[id]
          IN  IF f = None \/ DOMAIN f[1] = {}
              THEN /\ m.state = "draft"
                   /\ m.events = << >>
                   /\ reply'.state = "draft"
                   /\ submission_data'[id] = EmptyMap
              ELSE /\ m.state = "in_progress"
                   /\ Len(m.events) = 1
                   /\ m.events[1].type = "field.updated"
                   /\ actor_to_dict(m.events[1].actor) = call'.actor
                   /\ m.events[1].payload =
                         Some([ from_state |-> "draft",
                                to_state   |-> "in_progress" ])
                   /\ reply'.state = "in_progress"
                   /\ submission_data'[id] = f[1]
      ]_vars

\* C9 witness: a submission was created from fields that do not validate
C9_Witness ==
    /\ call.op = "create_submission"
    /\ call.initial_fields = Some(BadPartialDoc)
    /\ reply.raised = "none"
    /\ reply.state = "in_progress"
    /\ submission_data[reply.submissionId] = BadPartialDoc
    /\ Len(state_machines[reply.submissionId].events) = 1

\* the paths of the required errors validation finds in doc, in order
RequiredErrorPaths(doc) ==
    LET req == SelectSeq(validate(doc).errors, LAMBDA e : e.code = "required")
    IN  [ i \in 1 .. Len(req) |-> req[i].path ]

\* the required properties of the schema that doc lacks, in schema order
RequiredMissing(doc) == SelectSeq(SchemaRequired, LAMBDA p : p \notin DOMAIN doc)

\* C10 as stated: a creation with non-empty initial_fields replies with
\* missingFields equal to the paths of the required errors of those fields,
\* which is the empty list when the fields satisfy the schema.
C10_Original ==
    [][ ( FreshCreate /\ TruthyDict(call'.initial_fields) )
        => /\ "missingFields" \in DOMAIN reply'
           /\ reply'.missingFields = RequiredErrorPaths(call'.initial_fields[1])
      ]_vars

\* C10 amended: the reply carries missingFields (the paths of the required
\* errors, possibly none) when the fields fail validation, and no
\* missingFields entry when they satisfy the schema.
C10_MissingFields ==
    [][ ( FreshCreate /\ TruthyDict(call'.initial_fields) )
        => LET doc == call'.initial_fields[1]
           IN  IF validate(doc).is_valid
               THEN "missingFields" \notin DOMAIN reply'
               ELSE /\ "missingFields" \in DOMAIN reply'
                    /\ reply'.missingFields = RequiredErrorPaths(doc)
                    /\ reply'.missingFields = RequiredMissing(doc)
      ]_vars

\* C10 witness: a creation from fields that satisfy the schema was answered
C10_Witness ==
    /\ call.op = "create_submission"
    /\ call.initial_fields = Some(FullDoc)
    /\ reply.raised = "none"
    /\ reply.state = "in_progress"
    /\ Len(state_machines[reply.submissionId].events) = 1
    /\ validate(FullDoc).is_valid

(***************************************************************************)
(* Properties of the orchestrator boundary                                 *)
(***************************************************************************)
\* the transition_to call of this step is an illegal transition asked of a
\* submission the runtime holds
IllegalRtTransition ==
    /\ call'.op = "transition_to"
    /\ call'.submission_id \in DOMAIN state_machines
    /\ call'.target_state
          \notin TransitionTable[state_machines[call'.submission_id].state]

\* C11: an illegal transition requested of a submission of the orchestrator
\* never surfaces InvalidTransition: the caller gets the envelope
\* {ok: false, submissionId, state, resumeToken, error} with
\* error.type = conflict and retryable = false, state being the unchanged
\* state of the submission and resumeToken its token.
C11_ConflictEnvelope ==
    [][ IllegalRtTransition
        => LET id == call'.submission_id
           IN  /\ reply'.raised = "none"
               /\ { "ok", "submissionId", "state", "resumeToken", "error" }
                     \subseteq DOMAIN reply'
               /\ reply'.ok = FALSE
               /\ reply'.submissionId = id
               /\ reply'.state = state_machines[id].state
               /\ state_machines'[id].state = state_machines[id].state
               /\ reply'.resumeToken = submissions[id].resume_token
               /\ reply'.error.type = "conflict"
               /\ reply'.error.retryable = FALSE
      ]_vars

(***************************************************************************)
(* events.py: EventEmitter                                                 *)
(***************************************************************************)
\* the listener callbacks of the callers: the body of "f" is
\* calls.append(event.event_id), the body of "g" returns at once, the body
\* of "boom" raises an Exception
Listeners == { "f", "g", "boom" }

ListenerRecords(listener) == listener = "f"

ListenerRaises(listener) == listener = "boom"

\* the event types callers subscribe to and emit
EmitTypes == { "submission.created", "field.updated" }

\* IntakeEvent(event_id, type, submission_id, ts, actor, state, payload)
IntakeEvent(event_id, type, submission_id, ts, actor, state, payload) ==
    [ event_id      |-> event_id,
      type          |-> type,
      submission_id |-> submission_id,
      ts            |-> ts,
      actor         |-> actor,
      state         |-> state,
      payload       |-> payload ]

\* the events callers emit
EmitEvents ==
    { IntakeEvent("evt_001", "submission.created", "sub_001", 0,
                  Actor("agent", "bot_1", None, Some(EmptyMap)), "draft", None),
      IntakeEvent("evt_002", "field.updated", "sub_001", 0,
                  Actor("agent", "bot_1", None, Some(EmptyMap)), "in_progress",
                  None) }

\* self._listeners.get(event_type, [])
ListenersFor(event_type) ==
    IF event_type \in DOMAIN listeners THEN listeners[event_type] ELSE << >>

\* position of the first element of seq equal to x, 0 when there is none
IndexOf(seq, x) ==
    IF \E i \in 1 .. Len(seq) : seq[i] = x
    THEN CHOOSE i \in 1 .. Len(seq) :
            seq[i] = x /\ \A j \in 1 .. i - 1 : seq[j] # x
    ELSE 0

\* mutant: the last element is removed, whatever it is
Remove_Pop(seq, x) ==
    IF Len(seq) = 0 THEN seq ELSE SubSeq(seq, 1, Len(seq) - 1)

\* "try: seq.remove(x) except ValueError: pass": the first occurrence goes
Remove(seq, x) ==
    LET i == IndexOf(seq, x)
    IN  IF i = 0 THEN seq
        ELSE SubSeq(seq, 1, i - 1) \o SubSeq(seq, i + 1, Len(seq))

\* EventEmitter.on: the new _listeners
on(event_type, listener) ==
    Put(listeners, event_type, Append(ListenersFor(event_type), listener))

\* EventEmitter.on_any: the new _any_listeners
on_any(listener) == Append(any_listeners, listener)

\* mutant: the listener is removed from the list of every type
off_AllTypes(event_type, listener) ==
    [ t \in DOMAIN listeners |-> Remove(listeners[t], listener) ]

\* EventEmitter.off: the new _listeners
off(event_type, listener) ==
    IF event_type \in DOMAIN listeners
    THEN Put(listeners, event_type, Remove(listeners[event_type], listener))
    ELSE listeners

\* EventEmitter.off_any: the new _any_listeners
off_any(listener) == Remove(any_listeners, listener)

\* sum of the lengths of the lists of _listeners
TypedCount ==
    LET types == DOMAIN listeners
        Sum[S \in SUBSET types] ==
            IF S = {} THEN 0
            ELSE LET t == CHOOSE t \in S : TRUE
                 IN  Len(listeners[t]) + Sum[S \ { t }]
    IN  Sum[types]

\* EventEmitter.listener_count(event_type=None)
listener_count(event_type) ==
    IF event_type # None
    THEN Len(ListenersFor(event_type[1]))
    ELSE Len(any_listeners) + TypedCount

\* mutant: no try/except around the call, the first exception ends the loop
dispatch_NoCatch(ls) ==
    LET k == IF \E i \in 1 .. Len(ls) : ListenerRaises(ls[i])
             THEN CHOOSE i \in 1 .. Len(ls) :
                     ListenerRaises(ls[i])
                     /\ \A j \in 1 .. i - 1 : ~ ListenerRaises(ls[j])
             ELSE 0
    IN  IF k = 0 THEN [ invoked |-> ls, raised |-> "none" ]
        ELSE [ invoked |-> SubSeq(ls, 1, k), raised |-> "Exception" ]

\* one loop of emit: "for listener in ls: try: listener(event)
\* except Exception: pass": the listeners called, and what the loop raised
dispatch(ls) ==
    LET Loop[i \in 0 .. Len(ls)] ==
            IF i = 0 THEN [ invoked |-> << >>, raised |-> "none" ]
            ELSE IF ListenerRaises(ls[i])
                 THEN \* the exception is caught and dropped
                      [ Loop[i - 1] EXCEPT !.invoked = Append(@, ls[i]) ]
                 ELSE [ Loop[i - 1] EXCEPT !.invoked = Append(@, ls[i]) ]
    IN  Loop[Len(ls)]

\* mutant: the wildcard listeners are called before the type-specific ones
emit_WildcardFirst(event) ==
    LET wild  == dispatch(any_listeners)
        typed == dispatch(ListenersFor(event.type))
    IN  [ invoked |-> wild.invoked \o typed.invoked, raised |-> "none" ]

\* EventEmitter.emit: the listeners called, in call order, and what emit
\* raised to its caller
emit(event) ==
    LET typed == IF event.type \in DOMAIN listeners
                 THEN dispatch(listeners[event.type])
                 ELSE [ invoked |-> << >>, raised |-> "none" ]
    IN  IF typed.raised # "none" THEN typed
        ELSE LET wild == dispatch(any_listeners)
             IN  [ invoked |-> typed.invoked \o wild.invoked,
                   raised  |-> wild.raised ]

\* what the listeners called by emit(event) append to calls
Recorded(event, invoked) ==
    LET recording == SelectSeq(invoked, ListenerRecords)
    IN  [ i \in 1 .. Len(recording) |-> event.event_id ]

\* registrations held by the emitter
Registrations == Len(any_listeners) + TypedCount

\* emitter.on(event_type, listener)
On(event_type, listener) ==
    /\ call = NoCall
    /\ listeners' = on(event_type, listener)
    /\ call' = [ op |-> "on" ]
    /\ reply' = NoReply
    /\ UNCHANGED << sm, now, rtVars, any_listeners, calls, threads,
                    dispatching >>

\* emitter.on_any(listener)
OnAny(listener) ==
    /\ call = NoCall
    /\ any_listeners' = on_any(listener)
    /\ call' = [ op |-> "on_any" ]
    /\ reply' = NoReply
    /\ UNCHANGED << sm, now, rtVars, listeners, calls, threads,
                    dispatching >>

\* emitter.off(event_type, listener)
Off(event_type, listener) ==
    /\ call = NoCall
    /\ listeners' = off(event_type, listener)
    /\ call' = [ op |-> "off" ]
    /\ reply' = NoReply
    /\ UNCHANGED << sm, now, rtVars, any_listeners, calls, threads,
                    dispatching >>

\* emitter.off_any(listener)
OffAny(listener) ==
    /\ call = NoCall
    /\ any_listeners' = off_any(listener)
    /\ call' = [ op |-> "off_any" ]
    /\ reply' = NoReply
    /\ UNCHANGED << sm, now, rtVars, listeners, calls, threads,
                    dispatching >>

\* emitter.emit(event)
Emit(event) ==
    /\ call = NoCall
    /\ LET r == emit(event)
       IN  /\ calls' = calls \o Recorded(event, r.invoked)
           /\ reply' = [ raised |-> r.raised, invoked |-> r.invoked ]
    /\ call' = [ op |-> "emit", event |-> event ]
    /\ UNCHANGED << sm, now, rtVars, listeners, any_listeners, threads,
                    dispatching >>

\* emitter.clear()
Clear ==
    /\ call = NoCall
    /\ listeners' = EmptyMap
    /\ any_listeners' = << >>
    /\ call' = [ op |-> "clear" ]
    /\ reply' = NoReply
    /\ UNCHANGED << sm, now, rtVars, calls, threads, dispatching >>

\* emitter.listener_count(event_type)
ListenerCount(event_type) ==
    /\ call = NoCall
    /\ call' = [ op |-> "listener_count", event_type |-> event_type ]
    /\ reply' = [ raised |-> "none", count |-> listener_count(event_type) ]
    /\ UNCHANGED << sm, now, rtVars, emVars, threads >>

(***************************************************************************)
(* SpecEmitter: one EventEmitter and its callers                           *)
(***************************************************************************)
Subscribe ==
    \E listener \in Listeners :
        /\ Registrations < MaxRegistrations
        /\ \/ \E event_type \in EmitTypes : On(event_type, listener)
           \/ OnAny(listener)

Unsubscribe ==
    \E listener \in Listeners :
        \/ \E event_type \in EmitTypes : Off(event_type, listener)
        \/ OffAny(listener)

Publish ==
    \E event \in EmitEvents :
        /\ Len(calls) + Len(Recorded(event, emit(event).invoked)) <= MaxCalls
        /\ Emit(event)

Count == \E event_type \in { None } \cup { Some(t) : t \in EmitTypes } :
            ListenerCount(event_type)

NextEmitter == Subscribe \/ Unsubscribe \/ Publish \/ Clear \/ Count \/ Return

SpecEmitter == Init /\ [][NextEmitter]_vars

(***************************************************************************)
(* SpecPub: one IntakeRuntime, and an EventEmitter on which the recording  *)
(* listener is subscribed before the runtime creates a submission          *)
(***************************************************************************)
SubscribeRecorder ==
    /\ DOMAIN state_machines = {}
    /\ Registrations < MaxRegistrations
    /\ \/ OnAny("f")
       \/ \E event_type \in EmitTypes : On(event_type, "f")

CreateOne == CreateOver(FewRequests, MaxCreated)

NextPub == SubscribeRecorder \/ CreateOne \/ Get \/ Transition \/ Return

SpecPub == Init /\ [][NextPub]_vars

\* the ids of the events of the log of a submission the runtime holds
LogIds(id) ==
    [ i \in 1 .. Len(state_machines[id].events) |->
        state_machines[id].events[i].event_id ]

\* the events of submission id that the recording listener has observed
ObservedOf(id) == SelectSeq(calls, LAMBDA e : e[2] = id)

\* C12: every event minted by a legal transition of a submission the
\* orchestrator holds is appended to the log and published through the
\* emitter: a wildcard listener subscribed before the transition observes
\* exactly the events of the log, in log order.
C12_PublishedToWildcard ==
    ( Len(SelectSeq(any_listeners, ListenerRecords)) = 1 )
       => \A id \in DOMAIN state_machines : ObservedOf(id) = LogIds(id)

(***************************************************************************)
(* Properties of the event emitter                                         *)
(***************************************************************************)
\* the listeners an emit of an event of this type has to call, in order:
\* those registered for the type, then the wildcard ones
DueListeners(event_type) ==
    ( IF event_type \in DOMAIN listeners THEN listeners[event_type] ELSE << >> )
    \o any_listeners

Occurrences(seq, x) == Len(SelectSeq(seq, LAMBDA y : y = x))

\* an emit call has just run (emit leaves the registrations as they were)
Emitted == call.op = "emit"

\* C13: emit(event) invokes exactly the listeners registered for event.type
\* followed by the wildcard listeners, each group in registration order and
\* all before emit returns; a listener registered only for another event
\* type is not invoked.
C13_DispatchOrder ==
    Emitted =>
       /\ reply.invoked = DueListeners(call.event.type)
       /\ \A l \in Listeners :
             ( /\ Occurrences(any_listeners, l) = 0
               /\ Occurrences(ListenersFor(call.event.type), l) = 0 )
             => Occurrences(reply.invoked, l) = 0

\* C13 witness: a listener of the type and a wildcard listener were called
\* in that order, a listener of the other type was not
C13_Witness ==
    /\ Emitted
    /\ call.event.type = "field.updated"
    /\ Len(ListenersFor("field.updated")) = 1
    /\ ListenersFor("submission.created") = << "g" >>
    /\ Len(any_listeners) = 1
    /\ any_listeners # ListenersFor("field.updated")
    /\ reply.invoked = ListenersFor("field.updated") \o any_listeners
    /\ Occurrences(reply.invoked, "g") = 0

\* C14: listener failures are isolated: when a listener (of the type or
\* wildcard, at any position) raises during emit, every other listener due
\* for the event still fires in its normal order and emit returns normally.
C14_FailuresIsolated ==
    Emitted =>
       LET due == DueListeners(call.event.type)
       IN  /\ reply.raised = "none"
           /\ \A i \in 1 .. Len(due) :
                 ListenerRaises(due[i])
                 => /\ Len(reply.invoked) = Len(due)
                    /\ \A j \in 1 .. Len(due) : reply.invoked[j] = due[j]

\* C14 witness: a raising listener of the type came before a recording
\* listener of the type and a wildcard listener, and both were still called
C14_Witness ==
    /\ Emitted
    /\ reply.raised = "none"
    /\ ListenersFor(call.event.type) = << "boom", "f" >>
    /\ any_listeners = << "g" >>
    /\ reply.invoked = << "boom", "f", "g" >>
    /\ calls = << call.event.event_id >>

\* registrations of listener l that an event of type event_type reaches
RegCount(l, event_type) ==
    Occurrences(ListenersFor(event_type), l) + Occurrences(any_listeners, l)

\* C15: after on(T, f) and an emit of type T, f has been called exactly once;
\* after off(T, f) and another emit of type T, f is called no more; the same
\* for on_any / off_any and events of any type.  Step by step, for a
\* listener not registered before: on and on_any leave it registered once,
\* an emit calls it as often as it is registered, off and off_any of its
\* one registration leave it unregistered.
C15_SubscribeUnsubscribe ==
    [][ \A l \in Listeners, t \in EmitTypes :
          /\ ( On(t, l) /\ RegCount(l, t) = 0 ) => RegCount(l, t)' = 1
          /\ ( OnAny(l) /\ RegCount(l, t) = 0 ) => RegCount(l, t)' = 1
          /\ ( call'.op = "emit" /\ call'.event.type = t )
                => /\ Occurrences(reply'.invoked, l) = RegCount(l, t)
                   /\ ListenerRecords(l)
                         => Len(calls') = Len(calls) + RegCount(l, t)
          /\ ( Off(t, l) /\ RegCount(l, t) = 1 /\ Occurrences(any_listeners, l) = 0 )
                => RegCount(l, t)' = 0
          /\ ( OffAny(l) /\ RegCount(l, t) = 1
               /\ Occurrences(ListenersFor(t), l) = 0 )
                => RegCount(l, t)' = 0
      ]_vars

\* C15 witness: the recording listener was subscribed to a type, called
\* once, unsubscribed, and a second emit of the type did not call it
C15_Witness ==
    /\ Emitted
    /\ call.event.type = "submission.created"
    /\ "submission.created" \in DOMAIN listeners
    /\ listeners["submission.created"] = << >>
    /\ any_listeners = << "g" >>
    /\ reply.invoked = << "g" >>
    /\ calls = << call.event.event_id >>


(***************************************************************************)
(* validation.py: the engine on schemas and documents of its own           *)
(***************************************************************************)

\* JSON values of the documents handed to the engine
DocValues ==
    << Str("x"), IntV("1"),
       DictV(EmptyMap), DictV([ b |-> Str("x") ]), DictV([ b |-> IntV("1") ]),
       NullV >>

\* property names of the documents handed to the engine
DocKeys == { "name", "a", "a.b" }

\* the documents handed to the engine: every dict over DocKeys, given by
\* the position in DocValues of the value of each of its keys
ValidateDocs == UNION { [ K -> 1 .. Len(DocValues) ] : K \in SUBSET DocKeys }

\* the dict whose values are at the positions doc of DocValues
DocOf(doc) == [ k \in DOMAIN doc |-> DocValues[doc[k]] ]

\* a schema whose required list names a property with a dot in its name,
\* and whose property a is an object with a string property b
DottedRequiredSchema ==
    [ type       |-> "object",
      properties |-> << << "a", [ type       |-> "object",
                                  properties |-> << << "b", [ type |-> "string" ] >> >> ] >> >>,
      required   |-> << "a.b" >> ]

\* a schema with a property a whose object requires b, and a string
\* property whose own name is a.b
NestedRequiredSchema ==
    [ type       |-> "object",
      properties |-> << << "a", [ type     |-> "object",
                                  required |-> << "b" >> ] >>,
                        << "a.b", [ type |-> "string" ] >> >> ]

\* the schemas engines are constructed with
ValidateSchemas == << Schema, DottedRequiredSchema, NestedRequiredSchema >>

\* ValidationEngine(schema).validate(data)
Validate(schema, data) ==
    /\ call = NoCall
    /\ call' = [ op |-> "validate", schema |-> schema, data |-> data ]
    /\ reply' = engine_validate(schema, data)
    /\ UNCHANGED << sm, now, rtVars, emVars, threads >>

\* a list as a JSON value
ListV(items) == [ t |-> "list", items |-> items ]

\* the validator keywords whose diagnostics the engine is handed
ValidatorKinds ==
    { "required", "type", "format", "enum", "const", "minLength", "maxLength",
      "minimum", "maximum", "exclusiveMinimum", "exclusiveMaximum", "pattern",
      "minItems", "maxItems", "uniqueItems", "additionalProperties" }

\* the instances the diagnostics of a keyword are about: lists for the
\* keywords of arrays, strings for those of strings, integers for those of
\* numbers, objects for those of objects, any of them for the others
DiagnosticInstances(validator) ==
    CASE validator \in { "minItems", "maxItems", "uniqueItems" } ->
           << ListV(<< Str("only-one") >>), ListV(<< >>) >>
      [] validator \in { "minLength", "maxLength", "pattern", "format" } ->
           << Str("x"), Str("") >>
      [] validator \in { "minimum", "maximum", "exclusiveMinimum",
                         "exclusiveMaximum" } ->
           << IntV("1"), IntV("0") >>
      [] validator \in { "required", "additionalProperties" } ->
           << DictV(EmptyMap), DictV([ b |-> Str("x") ]) >>
      [] OTHER ->
           << Str("x"), IntV("1") >>

\* the paths the diagnostics are at
DiagnosticPaths == { << >>, << "tags" >>, << "user", "tags" >> }

\* a jsonschema ValidationError of keyword validator at path about instance
Diagnostic(validator, path, instance) ==
    [ validator       |-> validator,
      path            |-> path,
      message         |-> IF validator = "required"
                          THEN << "", "name", " is a required property" >>
                          ELSE << validator >>,
      validator_value |-> "2",
      instance        |-> instance ]

\* ValidationEngine._translate_error(error)
Translate(error) ==
    /\ call = NoCall
    /\ call' = [ op |-> "translate_error", error |-> error ]
    /\ reply' = translate_error(error)
    /\ UNCHANGED << sm, now, rtVars, emVars, threads >>

(***************************************************************************)
(* SpecValidate: engines validate documents and translate diagnostics      *)
(***************************************************************************)

ValidateAny ==
    \E i \in 1 .. Len(ValidateSchemas), doc \in ValidateDocs :
        Validate(ValidateSchemas[i], DocOf(doc))

TranslateAny ==
    \E validator \in ValidatorKinds, path \in DiagnosticPaths :
        \E i \in 1 .. Len(DiagnosticInstances(validator)) :
            Translate(Diagnostic(validator, path,
                                 DiagnosticInstances(validator)[i]))

NextValidate == ValidateAny \/ TranslateAny \/ Return

SpecValidate == Init /\ [][NextValidate]_vars

(***************************************************************************)
(* Properties of the validation engine                                     *)
(***************************************************************************)

\* the elements of a list
Elements(seq) == { seq[i] : i \in 1 .. Len(seq) }

\* C16: every result of validate partitions its errors: the paths of the
\* errors with code required are missing_fields, the paths of the others are
\* invalid_fields, the two lists together are as long as errors, and no path
\* is in both lists.
C16_Partition ==
    call.op = "validate" =>
        /\ reply.missing_fields = PathsWhere(reply.errors, TRUE)
        /\ reply.invalid_fields = PathsWhere(reply.errors, FALSE)
        /\ Len(reply.errors)
             = Len(reply.missing_fields) + Len(reply.invalid_fields)
        /\ Elements(reply.missing_fields) \cap Elements(reply.invalid_fields) = {}

\* the code the translation table gives the diagnostics of a keyword
TableCode(validator) ==
    CASE validator = "required" -> "required"
      [] validator = "type" -> "invalid_type"
      [] validator \in { "format", "pattern" } -> "invalid_format"
      [] validator \in { "enum", "const" } -> "invalid_value"
      [] validator = "minLength" -> "too_short"
      [] validator = "maxLength" -> "too_long"
      [] validator \in { "minimum", "maximum", "exclusiveMinimum",
                         "exclusiveMaximum", "minItems", "maxItems" } ->
           "invalid_value"
      [] OTHER -> "custom"

\* C17: the code of a translated diagnostic is the one the translation
\* table gives its keyword.
C17_TranslationTable ==
    call.op = "translate_error" => reply.code = TableCode(call.error.validator)


(***************************************************************************)
(* events.py, types.py: the wire form of an event and its parsing          *)
(***************************************************************************)

\* datetime.fromisoformat(ts_str.replace('Z', '+00:00')): the timestamp of
\* an ISO 8601 string
fromisoformat(ts_str) == ts_str[2]

\* data.get(key): None when data has no such key
DictGet(data, key) == IF key \in DOMAIN data THEN Some(data[key]) ELSE None

\* data.get(key, default)
DictGetOr(data, key, default) ==
    IF key \in DOMAIN data THEN data[key] ELSE default

\* Actor.from_dict: name=data.get("name"), metadata=data.get("metadata", {})
actor_from_dict(data) ==
    Actor(data.kind, data.id,
          DictGet(data, "name"),
          Some(DictGetOr(data, "metadata", EmptyMap)))

\* IntakeEvent.from_dict
event_from_dict(data) ==
    IntakeEvent(data.eventId, data.type, data.submissionId,
                fromisoformat(data.ts), actor_from_dict(data.actor),
                data.state, DictGet(data, "payload"))

\* the names, metadata and payloads of the events put on the wire: absent
\* (None), empty or present
WireNames == << None, Some("Jane Doe") >>

WireMetadata == << None, Some(EmptyMap), Some([ model |-> "m-1" ]) >>

WirePayloads == << None, Some(EmptyMap), Some([ name |-> Str("x") ]) >>

\* IntakeEvent.to_dict
ToDict(event) ==
    /\ call = NoCall
    /\ call' = [ op |-> "to_dict", event |-> event ]
    /\ reply' = [ raised |-> "none", value |-> event_to_dict(event) ]
    /\ UNCHANGED << sm, now, rtVars, emVars, threads >>

\* IntakeEvent.from_dict, on the dict to_dict has just returned
FromDict ==
    /\ call.op = "to_dict"
    /\ call' = [ op |-> "from_dict", event |-> call.event, data |-> reply.value ]
    /\ reply' = [ raised |-> "none", value |-> event_from_dict(reply.value) ]
    /\ UNCHANGED << sm, now, rtVars, emVars, threads >>

(***************************************************************************)
(* SpecWire: events are serialized and parsed back                         *)
(***************************************************************************)

Serialize ==
    \E kind \in ActorKind, type \in EmitTypes,
       n \in 1 .. Len(WireNames), m \in 1 .. Len(WireMetadata),
       p \in 1 .. Len(WirePayloads) :
        ToDict(IntakeEvent("evt_001", type, "sub_001", 0,
                           Actor(kind, "bot_1", WireNames[n], WireMetadata[m]),
                           "draft", WirePayloads[p]))

NextWire == Serialize \/ FromDict \/ Return

SpecWire == Init /\ [][NextWire]_vars

(***************************************************************************)
(* Properties of the wire form                                             *)
(***************************************************************************)

\* C18: an event parsed back from its wire form equals the event that was
\* serialized, on every field, whatever name, metadata and payload it has.
C18_RoundTrip ==
    call.op = "from_dict" => reply.value = call.event


(***************************************************************************)
(* runtime.py: the fields dict get_submission hands out                    *)
(***************************************************************************)

\* get_submission returns "fields": data, where data is the dict stored in
\* _submission_data itself (no copy is made); the caller that got the
\* envelope back sets a key of that dict: reply["fields"][key] = value
MutateReturnedFields(key, value) ==
    /\ call.op = "get_submission"
    /\ reply.raised = "none"
    /\ call.submission_id \in DOMAIN submission_data
    /\ submission_data' =
          Put(submission_data, call.submission_id,
              Put(submission_data[call.submission_id], key, value))
    /\ reply' = [ reply EXCEPT !.fields = Put(reply.fields, key, value) ]
    /\ UNCHANGED << sm, now, call, submissions, state_machines, resume_tokens,
                    idempotency_keys, firstReply, emVars, threads >>

(***************************************************************************)
(* SpecAlias: callers create, read and transition submissions and change   *)
(* the fields value they got back                                          *)
(***************************************************************************)

MutateFields == MutateReturnedFields("name", Str("Mallory"))

NextAlias == CreateOne \/ Get \/ Transition \/ MutateFields \/ Return

SpecAlias == Init /\ [][NextAlias]_vars

(***************************************************************************)
(* Properties of terminal submissions                                      *)
(***************************************************************************)

\* C19: once the state of a submission is terminal, no step alters its
\* stored fields or its event log.
C19_FrozenAfterTerminal ==
    [][ \A id \in DOMAIN state_machines :
            state_machines[id].state \in TerminalStates =>
                /\ submission_data'[id] = submission_data[id]
                /\ state_machines'[id].events = state_machines[id].events ]_vars


(***************************************************************************)
(* state_machine.py: transition_to called from two threads on one machine  *)
(***************************************************************************)
\* transition_to takes no lock; a thread can be preempted between any two
\* of its statements.  The position of a thread in transition_to:
\*   idle     not in a call
\*   checked  "if not self.can_transition_to(target_state)" found the
\*            transition legal
\*   read     "old_state = self.state" done
\*   set      "self.state = target_state" done; _emit_event comes next

\* the actor each thread calls transition_to with
ThreadActor(t) ==
    IF t = "t1" THEN Actor("agent", "bot_1", None, Some(EmptyMap))
    ELSE Actor("human", "user_1", Some("Jane Doe"), Some(EmptyMap))

\* the threads that are inside transition_to, past the check
InFlight == { t \in ThreadIds : threads[t].pc # "idle" }

\* thread t calls sm.transition_to(target_state, actor) and evaluates the
\* check: InvalidStateTransitionError ends the call, otherwise it goes on
ConcCheck(t, target_state) ==
    /\ call = NoCall
    /\ sm # NoSM
    /\ threads[t].pc = "idle"
    /\ IF can_transition_to(sm, target_state)
       THEN /\ Len(sm.events) + Cardinality(InFlight) < MaxConcEvents
            /\ threads' = [ threads EXCEPT ![t] =
                              [ pc           |-> "checked",
                                target_state |-> target_state,
                                actor        |-> ThreadActor(t) ] ]
       ELSE UNCHANGED threads
    /\ UNCHANGED << sm, now, call, reply, rtVars, emVars >>

\* old_state = self.state
ConcReadOld(t) ==
    /\ threads[t].pc = "checked"
    /\ threads' = [ threads EXCEPT ![t] =
                      [ pc           |-> "read",
                        target_state |-> threads[t].target_state,
                        actor        |-> threads[t].actor,
                        old_state    |-> sm.state ] ]
    /\ UNCHANGED << sm, now, call, reply, rtVars, emVars >>

\* self.state = target_state
ConcSetState(t) ==
    /\ threads[t].pc = "read"
    /\ sm' = [ sm EXCEPT !.state = threads[t].target_state ]
    /\ threads' = [ threads EXCEPT ![t].pc = "set" ]
    /\ UNCHANGED << now, call, reply, rtVars, emVars >>

\* self._emit_event(target_state, actor, old_state), and the call returns
ConcEmit(t) ==
    /\ threads[t].pc = "set"
    /\ sm' = emit_event(sm, threads[t].target_state, threads[t].actor,
                        threads[t].old_state, now)
    /\ threads' = [ threads EXCEPT ![t] = [ pc |-> "idle" ] ]
    /\ UNCHANGED << now, call, reply, rtVars, emVars >>

(***************************************************************************)
(* SpecConc: two threads call transition_to on one machine                 *)
(***************************************************************************)

ThreadChecks ==
    \E t \in ThreadIds, target_state \in SubmissionState :
        ConcCheck(t, target_state)

ThreadReadsOld == \E t \in ThreadIds : ConcReadOld(t)

ThreadSetsState == \E t \in ThreadIds : ConcSetState(t)

ThreadEmits == \E t \in ThreadIds : ConcEmit(t)

NextConc ==
    \/ SMConstruct
    \/ SMFromDict
    \/ Return
    \/ ThreadChecks
    \/ ThreadReadsOld
    \/ ThreadSetsState
    \/ ThreadEmits

SpecConc == Init /\ [][NextConc]_vars

(***************************************************************************)
(* Properties of concurrent calls                                          *)
(***************************************************************************)

\* C20: whatever the interleaving of two transition_to calls on one
\* machine, every logged event goes along an edge of the transition table,
\* none leaves a terminal state, and when no call is in progress the state
\* of the last event is the state of the machine.
C20_Serialized ==
    sm # NoSM =>
        /\ \A i \in 1 .. Len(sm.events) :
              LET p == sm.events[i].payload[1]
              IN  /\ p.to_state \in TransitionTable[p.from_state]
                  /\ p.from_state \notin TerminalStates
        /\ ( InFlight = {} /\ Len(sm.events) > 0 )
              => sm.events[Len(sm.events)].state = sm.state


(***************************************************************************)
(* Properties of cancellation and expiration                               *)
(***************************************************************************)

\* the states that are not terminal
NonTerminalStates == SubmissionState \ TerminalStates

\* C21: from every non-terminal state transition_to(cancelled) and
\* transition_to(expired) both succeed and leave the machine in the
\* terminal state asked for; in every non-terminal state both are allowed.
C21_CancelExpireAlwaysLegal ==
    [][ /\ ( /\ call'.op = "transition_to"
             /\ sm.state \in NonTerminalStates
             /\ call'.target_state \in { "cancelled", "expired" } )
           => /\ reply'.raised = "none"
              /\ sm'.state = call'.target_state
              /\ sm'.state \in TerminalStates
              /\ is_terminal(sm')
        /\ ( sm' # NoSM /\ sm'.state \in NonTerminalStates )
           => /\ can_transition_to(sm', "cancelled")
              /\ can_transition_to(sm', "expired")
      ]_vars

\* C21 witness: an approved submission, reached by transitions, was cancelled
C21_Witness ==
    /\ SMCalled
    /\ call.target_state = "cancelled"
    /\ reply.raised = "none"
    /\ sm.state = "cancelled"
    /\ Len(sm.events) >= 2
    /\ sm.events[Len(sm.events)].payload[1].from_state = "approved"


(***************************************************************************)
(* Properties of the identifiers create_submission returns                 *)
(***************************************************************************)

\* the create_submission call of this step returned an envelope
CreateReplied == call'.op = "create_submission" /\ reply'.raised = "none"

\* the call of this step carries the non-empty key under which the
\* submission id was created
CarriesKeyOf(id) ==
    /\ TruthyStr(call'.idempotency_key)
    /\ call'.idempotency_key[1] \in DOMAIN idempotency_keys
    /\ idempotency_keys[call'.idempotency_key[1]] = id

\* C22: create_submission calls with different keys, or with no key, get
\* different submissions: the reply of a call differs in submissionId and in
\* resumeToken from the first reply of every other key, and it names a
\* submission or a token that existed before the call only when the call
\* carries the key that submission was created under.
C22_DistinctSubmissions ==
    [][ CreateReplied =>
          /\ \A k \in DOMAIN firstReply :
                ( call'.idempotency_key # Some(k) ) =>
                    /\ reply'.submissionId # firstReply[k].submissionId
                    /\ reply'.resumeToken # firstReply[k].resumeToken
          /\ \A id \in DOMAIN state_machines :
                reply'.submissionId = id => CarriesKeyOf(id)
          /\ \A t \in DOMAIN resume_tokens :
                reply'.resumeToken = t => CarriesKeyOf(resume_tokens[t])
          /\ reply'.submissionId \in DOMAIN state_machines'
          /\ reply'.resumeToken \in DOMAIN resume_tokens'
      ]_vars

\* C22 witness: a call with key_2 was answered with a submission other than
\* the one created under key_1
C22_Witness ==
    /\ call.op = "create_submission"
    /\ call.idempotency_key = Some("key_2")
    /\ reply.raised = "none"
    /\ "key_1" \in DOMAIN firstReply
    /\ reply.submissionId # firstReply["key_1"].submissionId
    /\ reply.resumeToken # firstReply["key_1"].resumeToken
    /\ Cardinality(DOMAIN state_machines) = 2


(***************************************************************************)
(* Properties of get_submission                                            *)
(***************************************************************************)

\* the submission this step creates, when create_submission creates one
CreatesNew ==
    /\ CreateReplied
    /\ reply'.submissionId \notin DOMAIN state_machines

\* C23: get_submission of a known submission returns its current view: the
\* current state of its machine, the token minted at its creation, its
\* stored fields, its whole log serialized in order and the actor that
\* created it; the call changes nothing.
C23_CurrentView ==
    [][ /\ ( /\ call'.op = "get_submission"
             /\ call'.submission_id \in DOMAIN state_machines )
           => LET id == call'.submission_id
                  m  == state_machines[id]
              IN  /\ reply'.raised = "none"
                  /\ reply'.ok
                  /\ reply'.submissionId = id
                  /\ reply'.intakeId = IntakeId
                  /\ reply'.state = m.state
                  /\ reply'.resumeToken = submissions[id].resume_token
                  /\ resume_tokens[reply'.resumeToken] = id
                  /\ reply'.fields = submission_data[id]
                  /\ Len(reply'.events) = Len(m.events)
                  /\ \A i \in 1 .. Len(m.events) :
                        /\ reply'.events[i] = event_to_dict(m.events[i])
                        /\ reply'.events[i].eventId = m.events[i].event_id
                        /\ reply'.events[i].state = m.events[i].state
                  /\ reply'.createdBy = submissions[id].created_by
                  /\ UNCHANGED RuntimeMaps
        /\ CreatesNew
           => /\ submissions'[reply'.submissionId].resume_token
                    = reply'.resumeToken
              /\ submissions'[reply'.submissionId].created_by
                    = actor_to_dict(NormalizeActor(call'.actor))
        /\ \A id \in DOMAIN submissions :
              /\ submissions'[id].resume_token = submissions[id].resume_token
              /\ submissions'[id].created_by = submissions[id].created_by
      ]_vars

\* C23 witness: get_submission of a submission created with fields and
\* then submitted reports submitted and both events
C23_Witness ==
    /\ call.op = "get_submission"
    /\ reply.raised = "none"
    /\ reply.state = "submitted"
    /\ submissions[call.submission_id].state = "in_progress"
    /\ Len(reply.events) = 2
    /\ reply.fields = FullDoc
    /\ reply.createdBy = HumanDict


(***************************************************************************)
(* runtime.py: lookups by resume token                                     *)
(***************************************************************************)

\* the resume tokens callers present: those minted so far and one that was
\* never minted
UnknownResumeToken == << "rt", 0 >>

\* runtime.resume(resume_token): IntakeRuntime defines no method of that
\* name (its methods are __init__, create_submission,
\* _get_submission_response, _generate_resume_token and get_submission), so
\* the attribute lookup fails before anything is read or written
Resume(resume_token) ==
    /\ call = NoCall
    /\ call' = [ op |-> "resume", resume_token |-> resume_token ]
    /\ reply' = [ raised |-> "AttributeError" ]
    /\ UNCHANGED << sm, now, rtVars, emVars, threads >>

(***************************************************************************)
(* SpecLookup: one IntakeRuntime whose callers look submissions up by      *)
(* identifier and by resume token                                          *)
(***************************************************************************)

ResumeAny ==
    \E t \in DOMAIN resume_tokens \cup { UnknownResumeToken } : Resume(t)

NextLookup == CreateOne \/ Get \/ ResumeAny \/ Transition \/ Return

SpecLookup == Init /\ [][NextLookup]_vars

(***************************************************************************)
(* Properties of lookups                                                   *)
(***************************************************************************)

\* the reply is a failure of the NotFound kind: the exception of that name
\* or an error envelope of that type
IsNotFound(r) ==
    \/ r.raised \in { "NotFound", "NotFoundError" }
    \/ "error" \in DOMAIN r /\ r.error.type \in { "not_found", "NotFound" }

\* C24: get_submission of an unknown submission_id and resume of an unknown
\* resume_token fail with the NotFound kind and change no runtime map;
\* resume of a known token returns the envelope get_submission returns for
\* the submission of the token.
C24_NotFoundAndResume ==
    [][ /\ ( /\ call'.op = "get_submission"
             /\ call'.submission_id \notin DOMAIN submissions )
           => IsNotFound(reply') /\ UNCHANGED RuntimeMaps
        /\ ( /\ call'.op = "resume"
             /\ call'.resume_token \notin DOMAIN resume_tokens )
           => IsNotFound(reply') /\ UNCHANGED RuntimeMaps
        /\ ( /\ call'.op = "resume"
             /\ call'.resume_token \in DOMAIN resume_tokens )
           => /\ reply' = get_submission(resume_tokens[call'.resume_token])
              /\ UNCHANGED RuntimeMaps
      ]_vars


(***************************************************************************)
(* Properties of the events of creation                                    *)
(***************************************************************************)

\* C25: when create_submission creates a submission, the log of the new
\* submission holds a submission.created event stamped with the creating
\* actor.
C25_CreatedEventMinted ==
    [][ CreatesNew =>
          LET events == state_machines'[reply'.submissionId].events
          IN  \E i \in 1 .. Len(events) :
                 /\ events[i].type = "submission.created"
                 /\ events[i].submission_id = reply'.submissionId
                 /\ events[i].actor = NormalizeActor(call'.actor)
      ]_vars


(***************************************************************************)
(* state_machine.py: the clock the timestamps are read from                *)
(***************************************************************************)

\* ts=datetime.now(timezone.utc) reads the wall clock of the host.  Between
\* two calls the wall clock moves to any other reading: forward as time
\* passes, backward when the host's time is set or stepped by its time
\* synchronisation.
ClockMoves ==
    /\ call = NoCall
    /\ sm # NoSM
    /\ \E t \in 0 .. MaxClock : t # now /\ now' = t
    /\ UNCHANGED << sm, call, reply, rtVars, emVars, threads >>

\* sm.transition_to(target_state, actor), the timestamp read from the clock
ClockTransitionTo ==
    /\ call = NoCall
    /\ sm # NoSM
    /\ \E target_state \in SubmissionState, actor \in Actors :
         /\ can_transition_to(sm, target_state)
               => Len(sm.events) < MaxClockEvents
         /\ sm' = transition_to(sm, target_state, actor, now)
         /\ reply' = transition_outcome(sm, target_state)
         /\ call' = [ op            |-> "transition_to",
                      submission_id |-> sm.submission_id,
                      target_state  |-> target_state,
                      actor         |-> actor ]
    /\ UNCHANGED << now, rtVars, emVars, threads >>

(***************************************************************************)
(* SpecClock: one state machine instance under a moving wall clock         *)
(***************************************************************************)

NextClock ==
    SMConstruct \/ SMFromDict \/ ClockTransitionTo \/ ClockMoves \/ Return

SpecClock == Init /\ [][NextClock]_vars

(***************************************************************************)
(* Properties of timestamps                                                *)
(***************************************************************************)

\* C26: in the log of a submission the timestamps never decrease in append
\* order, whatever the transitions and whatever the clock does.
C26_TimestampsMonotonic ==
    sm # NoSM =>
        \A i \in 1 .. Len(sm.events) - 1 :
            sm.events[i].ts <= sm.events[i + 1].ts


(***************************************************************************)
(* Properties of type-mismatch errors                                      *)
(***************************************************************************)

\* the JSON type names of a value (an integer is also a number)
JsonTypeNames(value) ==
    CASE value.t = "str"      -> { "string" }
      [] value.t = "int"      -> { "integer", "number" }
      [] value.t = "float"    -> { "number" }
      [] value.t = "bool"     -> { "boolean" }
      [] value.t = "list"     -> { "array" }
      [] value.t = "dict"     -> { "object" }
      [] value.t = "NoneType" -> { "null" }
      [] OTHER                -> {}

\* the diagnostics of the validate call that has just run
DiagnosticsOfCall == iter_errors_at(call.schema, DictV(call.data), << >>)

\* C27: the field error of every type-mismatch diagnostic has code
\* invalid_type, expected equal to the declared type string and received
\* equal to the JSON type name of the offending value.
C27_ReceivedJsonType ==
    call.op = "validate" =>
        \A i \in 1 .. Len(DiagnosticsOfCall) :
            DiagnosticsOfCall[i].validator = "type" =>
                /\ reply.errors[i].code = "invalid_type"
                /\ reply.errors[i].expected
                      = Some(DiagnosticsOfCall[i].validator_value)
                /\ reply.errors[i].received # None
                /\ reply.errors[i].received[1]
                      \in JsonTypeNames(DiagnosticsOfCall[i].instance)


(***************************************************************************)
(* state_machine.py: the predicates of the state machine                   *)
(***************************************************************************)

\* sm.is_terminal()
SMIsTerminal ==
    /\ call = NoCall
    /\ sm # NoSM
    /\ call' = [ op |-> "is_terminal", submission_id |-> sm.submission_id ]
    /\ reply' = [ raised |-> "none", value |-> is_terminal(sm) ]
    /\ UNCHANGED << sm, now, rtVars, emVars, threads >>

\* sm.can_transition_to(target_state)
SMCanTransitionTo ==
    /\ call = NoCall
    /\ sm # NoSM
    /\ \E target_state \in SubmissionState :
         /\ call' = [ op            |-> "can_transition_to",
                      submission_id |-> sm.submission_id,
                      target_state  |-> target_state ]
         /\ reply' = [ raised |-> "none",
                       value  |-> can_transition_to(sm, target_state) ]
    /\ UNCHANGED << sm, now, rtVars, emVars, threads >>

(***************************************************************************)
(* SpecPred: one state machine instance, its transitions and predicates    *)
(***************************************************************************)

NextPred ==
    \/ SMConstruct
    \/ SMFromDict
    \/ SMTransitionTo
    \/ SMIsTerminal
    \/ SMCanTransitionTo
    \/ Return

SpecPred == Init /\ [][NextPred]_vars

(***************************************************************************)
(* Properties of terminality                                               *)
(***************************************************************************)

\* C28: is_terminal() is true exactly when the current state has no
\* outgoing edge, which is exactly in finalized, rejected, cancelled and
\* expired, and exactly when can_transition_to is false for every state;
\* the machine stores no terminality, and neither predicate changes it.
C28_TerminalityDerived ==
    [][ /\ call'.op = "is_terminal"
           => /\ reply'.raised = "none"
              /\ reply'.value <=> ( TransitionTable[sm.state] = {} )
              /\ reply'.value <=> ( sm.state \in TerminalStates )
              /\ reply'.value
                    <=> \A t \in SubmissionState : ~ can_transition_to(sm, t)
              /\ sm' = sm
        /\ call'.op = "can_transition_to"
           => /\ reply'.raised = "none"
              /\ reply'.value
                    <=> ( call'.target_state \in TransitionTable[sm.state] )
              /\ sm' = sm
        /\ sm' # NoSM => DOMAIN sm' = { "submission_id", "state", "events" }
      ]_vars

\* C28 witness: is_terminal() answered true on a machine that transitions
\* have brought to finalized
C28_Witness ==
    /\ call.op = "is_terminal"
    /\ reply.value
    /\ sm.state = "finalized"
    /\ Len(sm.events) >= 2


(***************************************************************************)
(* state_machine.py: the list get_events hands out                         *)
(***************************************************************************)

\* sm.transition_to(target_state, actor) on a log of at most maxEvents
SMTransitionWithin(maxEvents) ==
    /\ call = NoCall
    /\ sm # NoSM
    /\ \E target_state \in SubmissionState, actor \in Actors :
         /\ can_transition_to(sm, target_state) => Len(sm.events) < maxEvents
         /\ sm' = transition_to(sm, target_state, actor, now)
         /\ reply' = transition_outcome(sm, target_state)
         /\ call' = [ op            |-> "transition_to",
                      submission_id |-> sm.submission_id,
                      target_state  |-> target_state,
                      actor         |-> actor ]
    /\ UNCHANGED << now, rtVars, emVars, threads >>

\* events1 = sm.get_events()
SMGetEvents ==
    /\ call = NoCall
    /\ sm # NoSM
    /\ call' = [ op |-> "get_events", submission_id |-> sm.submission_id ]
    /\ reply' = [ raised |-> "none", value |-> get_events(sm),
                  changed |-> FALSE ]
    /\ UNCHANGED << sm, now, rtVars, emVars, threads >>

\* events2 = sm.get_events(), by the caller that still holds events1
SMGetEventsAgain ==
    /\ call.op = "get_events"
    /\ "first" \notin DOMAIN call
    /\ call' = [ op            |-> "get_events",
                 submission_id |-> sm.submission_id,
                 first         |-> reply.value,
                 first_changed |-> reply.changed ]
    /\ reply' = [ raised |-> "none", value |-> get_events(sm),
                  changed |-> FALSE ]
    /\ UNCHANGED << sm, now, rtVars, emVars, threads >>

\* the event a caller appends to a list it holds
BogusEvent ==
    IntakeEvent("evt_bogus", "submission.finalized", "sub_123", 0,
                Actor("agent", "bot_1", None, Some(EmptyMap)), "finalized",
                None)

Reverse(seq) == [ i \in 1 .. Len(seq) |-> seq[Len(seq) + 1 - i] ]

\* the items of a list after events.append(e), events.pop() or
\* events.reverse()
ChangedItems(items, change) ==
    CASE change = "append"  -> Append(items, BogusEvent)
      [] change = "pop"     -> SubSeq(items, 1, Len(items) - 1)
      [] change = "reverse" -> Reverse(items)

ListChanges == { "append", "pop", "reverse" }

\* the caller changes the list the last get_events call returned; a list
\* that is the machine's own object changes for the machine as well, and
\* for every other holder of that object
CallerChangesList(change) ==
    /\ call.op = "get_events"
    /\ ~ reply.changed
    /\ change = "pop" => Len(reply.value.items) > 0
    /\ change = "reverse" => Len(reply.value.items) > 1
    /\ LET items == ChangedItems(reply.value.items, change)
       IN  /\ reply' = [ reply EXCEPT !.value.items = items,
                                      !.changed = TRUE ]
           /\ sm' = IF reply.value.is_log
                    THEN [ sm EXCEPT !.events = items ] ELSE sm
           /\ call' = IF "first" \in DOMAIN call /\ call.first.is_log
                         /\ reply.value.is_log
                      THEN [ call EXCEPT !.first.items = items ] ELSE call
    /\ UNCHANGED << now, rtVars, emVars, threads >>

(***************************************************************************)
(* SpecCopy: one state machine instance whose callers read the log and     *)
(* change the lists they got                                               *)
(***************************************************************************)

ShortTransition == SMTransitionWithin(MaxCopyEvents)

CallerChanges == \E change \in ListChanges : CallerChangesList(change)

NextCopy ==
    \/ SMConstruct
    \/ SMFromDict
    \/ ShortTransition
    \/ SMGetEvents
    \/ SMGetEventsAgain
    \/ CallerChanges
    \/ Return

SpecCopy == Init /\ [][NextCopy]_vars

(***************************************************************************)
(* Properties of the list get_events returns                               *)
(***************************************************************************)

\* a get_events call returns in this step
GetEventsReturns ==
    /\ call'.op = "get_events"
    /\ ~ reply'.changed
    /\ call' # call

\* the caller changes a returned list in this step
ListChanged ==
    /\ call.op = "get_events"
    /\ call'.op = "get_events"
    /\ ~ reply.changed
    /\ reply'.changed

\* C29: get_events returns a copy of the log: a list equal to the log that
\* is not the machine's own list object; two successive calls return equal
\* lists that are distinct objects; and appending to, removing from or
\* reordering a returned list changes neither the log nor what a later
\* call returns.
C29_DefensiveCopy ==
    [][ /\ GetEventsReturns
           => /\ reply'.value.items = sm.events
              /\ ~ reply'.value.is_log
              /\ sm' = sm
              /\ "first" \in DOMAIN call'
                    => /\ ~ call'.first.is_log
                       /\ ~ call'.first_changed
                             => call'.first.items = reply'.value.items
        /\ ListChanged => sm' = sm
      ]_vars

\* C29 witness: after the caller changed the first list it got from a
\* machine with two events, a second call returned the two events
C29_Witness ==
    /\ call.op = "get_events"
    /\ "first" \in DOMAIN call
    /\ call.first_changed
    /\ call.first.items # reply.value.items
    /\ ~ reply.changed
    /\ Len(reply.value.items) = 2
    /\ reply.value.items = sm.events


(***************************************************************************)
(* Properties of unsubscribing                                             *)
(***************************************************************************)

\* the answers of listener_count: for no type and for every type
ListenerCounts ==
    [ event_type \in { None } \cup { Some(t) : t \in EmitTypes } |->
        listener_count(event_type) ]

\* C30: off(T, f) with f not registered for T, and off_any(f) with f not a
\* wildcard listener, raise nothing and leave every registration, the order
\* of the listeners and listener_count as they are; off(T, f) leaves the
\* lists of the other types and the wildcard list as they are.
C30_OffAbsentIsNoOp ==
    [][ \A l \in Listeners, t \in EmitTypes :
          /\ ( Off(t, l) /\ Occurrences(ListenersFor(t), l) = 0 )
                => /\ reply'.raised = "none"
                   /\ listeners' = listeners
                   /\ any_listeners' = any_listeners
                   /\ ListenerCounts' = ListenerCounts
          /\ ( OffAny(l) /\ Occurrences(any_listeners, l) = 0 )
                => /\ reply'.raised = "none"
                   /\ listeners' = listeners
                   /\ any_listeners' = any_listeners
                   /\ ListenerCounts' = ListenerCounts
          /\ Off(t, l)
                => /\ \A t2 \in EmitTypes \ { t } :
                         ListenersFor(t2)' = ListenersFor(t2)
                   /\ any_listeners' = any_listeners
                   /\ Len(ListenersFor(t)') >= Len(ListenersFor(t)) - 1
      ]_vars

\* C30 witness: an off call has returned with as many registrations held as
\* an emitter ever holds, so it removed none, while f is registered for a
\* type and as a wildcard
C30_Witness ==
    /\ call.op = "off"
    /\ Registrations = MaxRegistrations
    /\ ListenersFor("submission.created") = << "f", "g" >>
    /\ ListenersFor("field.updated") = << >>
    /\ any_listeners = << "f" >>


(***************************************************************************)
(* SpecDraft: one state machine built by its constructor, so started in    *)
(* draft, and driven by transition_to                                      *)
(***************************************************************************)
NextDraft == SMConstruct \/ SMTransitionTo \/ Return

SpecDraft == Init /\ [][NextDraft]_vars

\* the payload of the i-th event of a log
PayloadAt(events, i) == events[i].payload[1]

\* C34: the log of a machine started in draft is a chain: the first event's
\* from_state is draft, each later event's from_state is the previous
\* event's state, each event's to_state is its own state, and every
\* (from_state, to_state) pair is an edge of the transition table.
C34_LogIsChain ==
    sm # NoSM =>
        \A i \in 1..Len(sm.events) :
            /\ sm.events[i].payload # None
            /\ PayloadAt(sm.events, i).from_state =
                   ( IF i = 1 THEN "draft" ELSE sm.events[i - 1].state )
            /\ PayloadAt(sm.events, i).to_state = sm.events[i].state
            /\ PayloadAt(sm.events, i).to_state
                   \in TransitionTable[PayloadAt(sm.events, i).from_state]

\* C34 witness: a log of five events that went to awaiting_input, back to
\* in_progress and on to needs_review
C34_Witness ==
    /\ sm # NoSM
    /\ Len(sm.events) = 5
    /\ sm.events[2].state = "awaiting_input"
    /\ sm.events[3].state = "in_progress"
    /\ sm.events[5].state = "needs_review"


\* an event of one of the kinds occurs before position i of the log
PrecededBy(events, i, kinds) ==
    \E j \in 1..(i - 1) : events[j].type \in kinds

TerminalKinds ==
    { "submission.finalized", "review.rejected",
      "submission.cancelled", "submission.expired" }

\* C35: in the log of a machine started in draft, review.approved is
\* preceded by review.requested; submission.finalized, review.requested and
\* review.rejected are preceded by submission.submitted; at most one event
\* of a terminal kind occurs, and it is the last event of the log.
C35_KindsOrdered ==
    sm # NoSM =>
        \A i \in 1..Len(sm.events) :
            /\ sm.events[i].type = "review.approved"
                  => PrecededBy(sm.events, i, { "review.requested" })
            /\ sm.events[i].type \in { "submission.finalized",
                                       "review.requested", "review.rejected" }
                  => PrecededBy(sm.events, i, { "submission.submitted" })
            /\ sm.events[i].type \in TerminalKinds
                  => /\ i = Len(sm.events)
                     /\ ~ PrecededBy(sm.events, i, TerminalKinds)

\* C35 witness: a log that ends with submission.finalized after a review
C35_Witness ==
    /\ sm # NoSM
    /\ Len(sm.events) = 5
    /\ sm.events[2].type = "submission.submitted"
    /\ sm.events[3].type = "review.requested"
    /\ sm.events[4].type = "review.approved"
    /\ sm.events[5].type = "submission.finalized"


\* the states reachable from a set of states in at most n transitions
RECURSIVE ReachableWithin(_, _)
ReachableWithin(states, n) ==
    IF n = 0 THEN states
    ELSE ReachableWithin(
             states \cup UNION { VALID_TRANSITIONS[s] : s \in states }, n - 1)

\* the states reachable from s by one transition or more
ReachableFrom(s) ==
    ReachableWithin(VALID_TRANSITIONS[s], Cardinality(SubmissionState))

\* the edges of the transition graph that lie on a cycle
CycleEdges ==
    { e \in SubmissionState \X SubmissionState :
          /\ e[2] \in VALID_TRANSITIONS[e[1]]
          /\ e[1] \in { e[2] } \cup ReachableFrom(e[2]) }

\* the states before submission
PreSubmitStates ==
    { "draft", "in_progress", "awaiting_input", "awaiting_upload" }

\* the positions of the log whose event entered submitted
SubmittedAt(events) ==
    { i \in 1..Len(events) : events[i].state = "submitted" }

\* C36: no way back once submitted: the edges on cycles of the transition
\* graph are those of in_progress <-> awaiting_input and in_progress <->
\* awaiting_upload; no successful transition targets draft or the current
\* state; after submitted none of draft, in_progress, awaiting_input,
\* awaiting_upload is entered again, and at most three transitions succeed
\* after it, the third one ending in a terminal state.
C36_NoWayBack ==
    [][ /\ CycleEdges = { << "in_progress", "awaiting_input" >>,
                          << "awaiting_input", "in_progress" >>,
                          << "in_progress", "awaiting_upload" >>,
                          << "awaiting_upload", "in_progress" >> }
        /\ ( call'.op = "transition_to" /\ reply'.raised = "none" )
              => /\ call'.target_state # "draft"
                 /\ call'.target_state # sm.state
                 /\ sm'.state = call'.target_state
        /\ ( sm # NoSM /\ sm' # NoSM /\ sm.state \notin PreSubmitStates )
              => sm'.state \notin PreSubmitStates
        /\ sm' # NoSM =>
              \A i \in SubmittedAt(sm'.events) :
                  /\ Len(sm'.events) - i <= 3
                  /\ Len(sm'.events) - i = 3 => sm'.state \in TerminalStates
                  /\ \A j \in (i + 1)..Len(sm'.events) :
                         sm'.events[j].state \notin PreSubmitStates
      ]_vars

\* C36 witness: three transitions succeeded after submitted and the machine
\* is finalized
C36_Witness ==
    /\ SMCalled
    /\ reply.raised = "none"
    /\ sm.state = "finalized"
    /\ \E i \in SubmittedAt(sm.events) : Len(sm.events) - i = 3


(***************************************************************************)
(* Properties of create_submission                                         *)
(***************************************************************************)
\* the create_submission call of this step carries a key the runtime has
\* recorded
KeyHit ==
    /\ call'.op = "create_submission"
    /\ call'.idempotency_key # None
    /\ call'.idempotency_key[1] \in DOMAIN idempotency_keys

\* C33: a create_submission call that hits a recorded idempotency key is a
\* pure read: no submission id and no resume token is minted, no transition
\* runs, no event is appended, the stored fields, created_by and ttl_ms of
\* the submission stay as they are whatever actor, initial_fields and ttl_ms
\* the call carries, and all five runtime maps are unchanged.
C33_HitIsPureRead ==
    [][ KeyHit =>
          LET id == idempotency_keys[call'.idempotency_key[1]]
          IN  /\ reply'.raised = "none"
              /\ DOMAIN state_machines' = DOMAIN state_machines
              /\ DOMAIN resume_tokens' = DOMAIN resume_tokens
              /\ state_machines'[id] = state_machines[id]
              /\ submission_data'[id] = submission_data[id]
              /\ submissions'[id] = submissions[id]
              /\ UNCHANGED RuntimeMaps
      ]_vars

\* C33 witness: a call with another actor, no initial fields and no ttl_ms
\* was answered under the key of a submission a human created with fields
\* and a ttl_ms
C33_Witness ==
    /\ call.op = "create_submission"
    /\ call.idempotency_key = Some("key_1")
    /\ call.actor = AgentDict
    /\ call.initial_fields = None
    /\ call.ttl_ms = None
    /\ reply.raised = "none"
    /\ "key_1" \in DOMAIN idempotency_keys
    /\ submissions[idempotency_keys["key_1"]].created_by.kind = "human"
    /\ submissions[idempotency_keys["key_1"]].ttl_ms = Some(60000)
    /\ submission_data[idempotency_keys["key_1"]] = FullDoc
    /\ Len(state_machines[idempotency_keys["key_1"]].events) = 1


\* C37: the maps of the runtime are mutually consistent: _submissions,
\* _state_machines and _submission_data have the same keys; each machine's
\* submission_id is its key; every resume token maps to a submission whose
\* record stores that token; every recorded idempotency key maps to a
\* submission.
C37_MapsConsistent ==
    /\ DOMAIN submissions = DOMAIN state_machines
    /\ DOMAIN submission_data = DOMAIN state_machines
    /\ \A id \in DOMAIN state_machines :
           state_machines[id].submission_id = id
    /\ \A t \in DOMAIN resume_tokens :
           /\ resume_tokens[t] \in DOMAIN submissions
           /\ submissions[resume_tokens[t]].resume_token = t
    /\ \A k \in DOMAIN idempotency_keys :
           idempotency_keys[k] \in DOMAIN submissions

\* C37 witness: two submissions, one of them created under a key, after a
\* replay of that key
C37_Witness ==
    /\ call.op = "create_submission"
    /\ call.idempotency_key = Some("key_1")
    /\ reply.raised = "none"
    /\ Cardinality(DOMAIN submissions) = 2
    /\ Cardinality(DOMAIN resume_tokens) = 2
    /\ DOMAIN idempotency_keys = { "key_1" }
    /\ reply.submissionId = << "sub", 1 >>


\* the create_submission call of this step failed while the actor was
\* normalized
ActorRefused ==
    /\ call'.op = "create_submission"
    /\ reply'.raised \in { "KeyError", "ValueError" }

\* C38: a create_submission call that fails while normalizing the actor
\* (unknown kind, missing kind, missing id) leaves the runtime unchanged: no
\* record, machine, field data, token or key is recorded; and a call with a
\* valid actor and a key that is not recorded, as the key of a refused call
\* is, creates a fresh submission.
C38_RefusedLeavesNothing ==
    [][ /\ ActorRefused =>
              /\ UNCHANGED RuntimeMaps
              /\ call'.idempotency_key # None =>
                     call'.idempotency_key[1] \notin DOMAIN idempotency_keys'
        /\ ( /\ call'.op = "create_submission"
             /\ ActorError(call'.actor) = "none"
             /\ call'.idempotency_key # None
             /\ call'.idempotency_key[1] \notin DOMAIN idempotency_keys )
              => /\ reply'.raised = "none"
                 /\ reply'.submissionId \notin DOMAIN state_machines
                 /\ reply'.submissionId \in DOMAIN state_machines'
                 /\ reply'.resumeToken \notin DOMAIN resume_tokens
      ]_vars

\* C38 witness: a call with a key and an actor without kind was refused
\* next to a submission created under another key
C38_Witness ==
    /\ call.op = "create_submission"
    /\ call.actor = NoKindDict
    /\ call.idempotency_key = Some("key_1")
    /\ reply.raised = "KeyError"
    /\ DOMAIN idempotency_keys = { "key_2" }
    /\ Cardinality(DOMAIN submissions) = 1
    /\ Cardinality(DOMAIN resume_tokens) = 1


\* the create_submission call of this step carries the empty string as key
\* and an actor that normalizes
EmptyKeyCreate ==
    /\ call'.op = "create_submission"
    /\ call'.idempotency_key = Some("")
    /\ ActorError(call'.actor) = "none"

\* C40: an idempotency key equal to the empty string is treated as no key:
\* it is never looked up and never recorded, so every call that carries it
\* creates a submission of its own with a resume token of its own.
C40_EmptyKeyIsNoKey ==
    [][ /\ EmptyKeyCreate =>
              /\ reply'.raised = "none"
              /\ reply'.submissionId \notin DOMAIN state_machines
              /\ reply'.submissionId \in DOMAIN state_machines'
              /\ reply'.resumeToken \notin DOMAIN resume_tokens
              /\ reply'.resumeToken \in DOMAIN resume_tokens'
              /\ idempotency_keys' = idempotency_keys
              /\ "" \in DOMAIN firstReply =>
                     /\ reply'.submissionId # firstReply[""].submissionId
                     /\ reply'.resumeToken # firstReply[""].resumeToken
        /\ "" \notin DOMAIN idempotency_keys'
      ]_vars

\* C40 witness: the second call with the empty key created a second
\* submission
C40_Witness ==
    /\ call.op = "create_submission"
    /\ call.idempotency_key = Some("")
    /\ reply.raised = "none"
    /\ "" \in DOMAIN firstReply
    /\ reply.submissionId # firstReply[""].submissionId
    /\ reply.resumeToken # firstReply[""].resumeToken
    /\ Cardinality(DOMAIN state_machines) = 2
    /\ idempotency_keys = EmptyMap


(***************************************************************************)
(* emit, one listener call at a time: listeners whose bodies call the      *)
(* emitter they are registered on                                          *)
(***************************************************************************)
\* listeners that call off and off_any: once unsubscribes itself, drop_g
\* unsubscribes g; g does nothing and boom raises
UnsubListeners == { "g", "boom", "once", "drop_g" }

\* a listener that calls on: again registers itself for the event's type
ResubListeners == { "g", "again" }

\* the listeners a body unsubscribes, for the event's type and as wildcard
Unsubscribes(listener) ==
    IF listener = "once" THEN { "once" }
    ELSE IF listener = "drop_g" THEN { "g" }
    ELSE {}

\* the list object a loop of emit walks
LoopList(phase, event) ==
    IF phase = "typed" THEN listeners[event.type] ELSE any_listeners

\* the longest list the model keeps while a loop walks it
LoopWindow == MaxRegistrations + 1

\* listener(event): _listeners and _any_listeners after the body has run
ListenerBody(listener, event) ==
    IF listener \in { "once", "drop_g" }
    THEN LET target == CHOOSE l \in Unsubscribes(listener) : TRUE
         IN  [ listeners     |-> off(event.type, target),
               any_listeners |-> off_any(target) ]
    ELSE IF listener = "again"
    THEN [ listeners     |-> on(event.type, "again"),
           any_listeners |-> any_listeners ]
    ELSE [ listeners |-> listeners, any_listeners |-> any_listeners ]

\* emit(event) is entered: "if event.type in self._listeners" picks the
\* first loop
EmitBegin(event) ==
    /\ call = NoCall
    /\ dispatching = NoEmit
    /\ dispatching' =
          [ phase   |-> IF event.type \in DOMAIN listeners
                        THEN "typed" ELSE "any",
            event   |-> event,
            index   |-> 0,
            invoked |-> << >>,
            begun   |-> ListenersFor(event.type) \o any_listeners,
            removed |-> {} ]
    /\ call' = [ op |-> "emit", event |-> event ]
    /\ reply' = NoReply
    /\ UNCHANGED << sm, now, rtVars, listeners, any_listeners, calls, threads >>

\* one turn of "for listener in <list>": the iterator yields the item at its
\* index, if the list has one, and the body runs inside try/except
EmitCallsListener ==
    /\ dispatching # NoEmit
    /\ dispatching.index < Len(LoopList(dispatching.phase, dispatching.event))
    /\ Len(LoopList(dispatching.phase, dispatching.event)) <= LoopWindow
    /\ LET event    == dispatching.event
           listener == LoopList(dispatching.phase, event)[dispatching.index + 1]
           after    == ListenerBody(listener, event)
       IN  /\ listeners' = after.listeners
           /\ any_listeners' = after.any_listeners
           /\ dispatching' =
                 [ dispatching EXCEPT
                     !.index   = @ + 1,
                     !.invoked = Append(@, listener),
                     !.removed = @ \cup Unsubscribes(listener) ]
    /\ UNCHANGED << sm, now, rtVars, calls, call, reply, threads >>

\* the model keeps at most LoopWindow items of the list a loop walks: a
\* longer list loses its first item, which the iterator has passed and
\* which nothing looks at again in a loop whose listeners only append
ForgetPassed ==
    /\ dispatching # NoEmit
    /\ Len(LoopList(dispatching.phase, dispatching.event)) > LoopWindow
    /\ dispatching.index >= 1
    /\ listeners' =
          IF dispatching.phase = "typed"
          THEN Put(listeners, dispatching.event.type,
                   Tail(listeners[dispatching.event.type]))
          ELSE listeners
    /\ any_listeners' =
          IF dispatching.phase = "typed"
          THEN any_listeners ELSE Tail(any_listeners)
    /\ dispatching' =
          [ dispatching EXCEPT !.index = @ - 1, !.invoked = Tail(@) ]
    /\ UNCHANGED << sm, now, rtVars, calls, call, reply, threads >>

\* the iterator is exhausted: the loop over the wildcard listeners starts,
\* or emit returns
EmitLoopEnds ==
    /\ dispatching # NoEmit
    /\ dispatching.index >= Len(LoopList(dispatching.phase, dispatching.event))
    /\ IF dispatching.phase = "typed"
       THEN /\ dispatching' =
                  [ dispatching EXCEPT !.phase = "any", !.index = 0 ]
            /\ reply' = reply
       ELSE /\ dispatching' = NoEmit
            /\ reply' = [ raised |-> "none", invoked |-> dispatching.invoked ]
    /\ UNCHANGED << sm, now, rtVars, listeners, any_listeners, calls, call,
                    threads >>

EmitAny == \E event \in EmitEvents : EmitBegin(event)

(***************************************************************************)
(* SpecUnsub: one EventEmitter whose listeners unsubscribe during emit     *)
(***************************************************************************)
SubscribeUnsub ==
    \E listener \in UnsubListeners :
        /\ Registrations < MaxRegistrations
        /\ \/ \E event_type \in EmitTypes : On(event_type, listener)
           \/ OnAny(listener)

NextUnsub ==
    SubscribeUnsub \/ EmitAny \/ EmitCallsListener \/ EmitLoopEnds \/ Return

SpecUnsub == Init /\ [][NextUnsub]_vars

\* C31: when listeners unsubscribe themselves or others while emit
\* dispatches, every listener that was registered once for the event when
\* emit began and that was not unsubscribed is invoked exactly once during
\* that emit.
C31_NoListenerSkipped ==
    [][ ( dispatching # NoEmit /\ dispatching' = NoEmit )
        => \A l \in UnsubListeners :
              ( /\ Occurrences(dispatching.begun, l) = 1
                /\ l \notin dispatching.removed )
                 => Occurrences(reply'.invoked, l) = 1
      ]_vars


(***************************************************************************)
(* SpecResub: one EventEmitter whose listeners register during emit; the   *)
(* loops of emit run on the caller's thread and always take their next turn *)
(***************************************************************************)
SubscribeResub ==
    \E listener \in ResubListeners :
        /\ Registrations < MaxRegistrations
        /\ \/ \E event_type \in EmitTypes : On(event_type, listener)
           \/ OnAny(listener)

NextResub ==
    \/ SubscribeResub \/ EmitAny \/ EmitCallsListener \/ ForgetPassed
    \/ EmitLoopEnds \/ Return

SpecResub ==
    /\ Init
    /\ [][NextResub]_vars
    /\ WF_vars(EmitCallsListener)
    /\ WF_vars(ForgetPassed)
    /\ WF_vars(EmitLoopEnds)

\* C39: emit(event) terminates when every listener body terminates, also
\* when listeners register listeners during dispatch: every emit that was
\* entered returns.
C39_EmitTerminates == ( dispatching # NoEmit ) ~> ( dispatching = NoEmit )


(***************************************************************************)
(* SpecConcCreate: two threads call create_submission on one runtime; the  *)
(* runtime takes no lock                                                   *)
(***************************************************************************)
\* (idempotency_key, initial_fields) of the calls of the threads
ConcCreateRequests ==
    { << Some("key_1"), None >>, << Some("key_1"), Some(FullDoc) >>,
      << Some("key_2"), None >> }

\* the threads that are inside create_submission, past the key lookup
PastLookup == { t \in ThreadIds : threads[t].pc = "looked" }

\* thread t enters create_submission: "if idempotency_key: if idempotency_key
\* in self._idempotency_keys: return self._get_submission_response(...)"
ConcCreateLookup(t, idempotency_key, initial_fields) ==
    /\ call = NoCall
    /\ threads[t].pc = "idle"
    /\ ~ IdempotentHit(idempotency_key)
          => Cardinality(DOMAIN state_machines) + Cardinality(PastLookup)
                < MaxConcCreated
    /\ threads' =
          [ threads EXCEPT ![t] =
              IF IdempotentHit(idempotency_key)
              THEN [ pc              |-> "returned",
                     idempotency_key |-> idempotency_key,
                     created         |-> FALSE,
                     reply           |-> get_submission_response(
                                 idempotency_keys[idempotency_key[1]]) ]
              ELSE [ pc              |-> "looked",
                     idempotency_key |-> idempotency_key,
                     initial_fields  |-> initial_fields ] ]
    /\ UNCHANGED << sm, now, call, reply, rtVars, emVars >>

\* thread t runs the rest of create_submission: ids, machine, token, field
\* data, key, record, and the reply
ConcCreateStore(t) ==
    /\ threads[t].pc = "looked"
    /\ LET norm            == ThreadActor(t)
           idempotency_key == threads[t].idempotency_key
           initial_fields  == threads[t].initial_fields
           submission_id   == NewSubmissionId
           resume_token    == generate_resume_token
       IN  /\ state_machines' =
                 Put(state_machines, submission_id,
                     CreatedMachine(submission_id, norm, initial_fields))
           /\ resume_tokens' = Put(resume_tokens, resume_token, submission_id)
           /\ submission_data' =
                 Put(submission_data, submission_id,
                     StoredFields(initial_fields))
           /\ idempotency_keys' =
                 StoreIdempotencyKey(idempotency_key, submission_id)
           /\ submissions' =
                 Put(submissions, submission_id,
                     SubmissionRecord(submission_id, resume_token, norm,
                                      initial_fields, None))
           /\ threads' =
                 [ threads EXCEPT ![t] =
                     [ pc              |-> "returned",
                       idempotency_key |-> idempotency_key,
                       created         |-> TRUE,
                       reply           |-> CreatedResponse(
                                   submission_id, resume_token,
                                   initial_fields) ] ]
    /\ UNCHANGED << sm, now, call, reply, firstReply, emVars >>

\* the caller on thread t takes the reply of its call
ConcCreateReturn(t) ==
    /\ threads[t].pc = "returned"
    /\ threads' = [ threads EXCEPT ![t] = [ pc |-> "idle" ] ]
    /\ UNCHANGED << sm, now, call, reply, rtVars, emVars >>

ThreadLooksUp ==
    \E t \in ThreadIds, r \in ConcCreateRequests :
        ConcCreateLookup(t, r[1], r[2])

ThreadStores == \E t \in ThreadIds : ConcCreateStore(t)

ThreadTakesReply == \E t \in ThreadIds : ConcCreateReturn(t)

NextConcCreate == ThreadLooksUp \/ ThreadStores \/ ThreadTakesReply

SpecConcCreate == Init /\ [][NextConcCreate]_vars

\* C32: when two create_submission calls with the same idempotency key
\* interleave, at most one submission is created for that key and both
\* replies carry the same submissionId and resumeToken.
C32_OneSubmissionPerKey ==
    \A t \in ThreadIds : \A u \in ThreadIds \ { t } :
        ( /\ threads[t].pc = "returned"
          /\ threads[u].pc = "returned"
          /\ threads[t].idempotency_key = threads[u].idempotency_key )
        => /\ threads[t].reply.submissionId = threads[u].reply.submissionId
           /\ threads[t].reply.resumeToken = threads[u].reply.resumeToken
           /\ ~ ( threads[t].created /\ threads[u].created )

=============================================================================
